---------------------------- MODULE Spec2Model ----------------------------
(***************************************************************************)
(* Model of the agent_ai request pipeline and of its two memory tiers.     *)
(*                                                                         *)
(*   ShortTermMemoryProvider  (agent_ai/memory/memory_manager.py)          *)
(*       a Redis list per "user:<u>:session:<s>" key, with a TTL           *)
(*   LongTermMemoryProvider   (agent_ai/memory/memory_manager.py)          *)
(*       rows of agent.long_term_memory, each with its usage_info          *)
(*   Agent / AgentManager     (agent_ai/agent/agent_builder.py)            *)
(*   agent_ai_brain           (server/api/agent_ai_brain/v1)               *)
(*                                                                         *)
(* Two specifications share the stores:                                    *)
(*   SpecSTM  the ephemeral store driven operation by operation            *)
(*   Spec     the request pipeline, one stage per step                     *)
(*                                                                         *)
(* Time is in seconds.  Money is an integer number of 1e-14 USD, the unit  *)
(* in which the embedding price table of constants.py is integral.  Python *)
(* integers are unbounded; cost_usd is a Python float, so a sum of costs   *)
(* is rounded to a significand of MantissaBits bits and is taken in the    *)
(* order the code takes it.                                                *)
(***************************************************************************)
EXTENDS Integers, Sequences, FiniteSets, TLC

VARIABLES
    now,        \* wall clock (datetime.now(), Redis' clock)
    redis,      \* Redis: key -> list of serialized items (<<>>: no such key)
    expireAt,   \* Redis: key -> time the key expires at, NoTTL when none
    lastOk,     \* history: key -> time of the last add_message that returned
    lastPush,   \* history: key -> time of the last add_message that pushed
    op,         \* the last ShortTermMemoryProvider call and its outcome
    ltm,        \* rows of agent.long_term_memory, in insertion order
    pc,         \* where agent_ai_brain stands
    req,        \* request_body (and the embedding model of the configuration)
    loc,        \* the local variables of agent_ai_brain
    out,        \* what the caller of the endpoint receives
    pre,        \* history: the stores as they were when the request came in
    trace,      \* history: the stages run for this request, in order
    calls,      \* history: the provider calls made for this request
    branches,   \* history: the branch flows invoked, with what they were given
    knowledge,  \* rows of agent.agent_knowledge_embeddings, committed
    ingest,     \* the run of populate_db.py under way, and its transaction
    flight,     \* the requests served at the same time, each with its position
    writes      \* history: the entries this request added to the two memories

stmVars == <<lastOk, lastPush, op>>
pipeVars == <<ltm, pc, req, loc, out, pre, trace, calls, branches>>
ingestVars == <<knowledge, ingest>>
otherVars == <<ingestVars, flight, writes>>
vars == <<now, redis, expireAt, lastOk, lastPush, op,
          ltm, pc, req, loc, out, pre, trace, calls, branches,
          knowledge, ingest, flight, writes>>

-----------------------------------------------------------------------------
(* Bounds of the model *)

MaxTime == 900     \* the clock stops here
TickStep == 300     \* seconds that pass in one Tick
MaxLog == 2         \* longest Redis list
MaxWindow == 2      \* largest short_term_memory.memory_size tried
MaxStored == 3      \* longest Redis list a read is tried on
MaxRows == 3        \* most rows of agent.long_term_memory
MaxTopN == 3        \* largest top_n a search is asked for
MantissaBits == 12  \* bits of a float's significand (scaled down from 53)
MaxDicts == 3       \* longest list of usage records merged
MaxRequests == 2    \* requests served at the same time
MaxChunks == 2      \* most chunks one ingestion run is given

(* Program constants *)

ttl_seconds == 600
KnowledgeTopN == 5

Users == {"u1", "u2"}
Sessions == {"s1"}
UserMsgs == {"m1", "DENIED"}
VALID_ROLES == {"user", "assistant"}
Roles == VALID_ROLES \cup {"system"}

NoTTL == 0 - 1
Never == 0 - 1

-----------------------------------------------------------------------------
(* Redis, as the provider uses it *)

\* ShortTermMemoryProvider.__init__: self.key
Key(user_id, session_id) == "user:" \o user_id \o ":session:" \o session_id

Keys == {Key(u, s) : u \in Users, s \in Sessions}

\* json.dumps of the item built by add_message
JsonDumps(item) ==
    [ok |-> TRUE, role |-> item.role, content |-> item.content,
     timestamp |-> item.timestamp]

\* json.loads succeeds on what json.dumps wrote and raises on anything else
Decodable(raw) == raw.ok

JsonLoads(raw) ==
    [role |-> raw.role, content |-> raw.content, timestamp |-> raw.timestamp]

\* a push at the head of the list (LPUSH)
RPush_AtHead(store, key, raw) == [store EXCEPT ![key] = <<raw>> \o @]

\* RPUSH key value: appends, creating the key (without a TTL) when absent
RPush(store, key, raw) == [store EXCEPT ![key] = Append(@, raw)]

\* EXPIRE key seconds: arms the TTL of an existing key, no effect otherwise
Expire(store, exp, t, key, seconds) ==
    IF store[key] = <<>> THEN exp ELSE [exp EXCEPT ![key] = t + seconds]

\* LRANGE key start stop: negative indices count from the tail, out-of-range
\* indices are clamped
LRange(list, start, stop) ==
    LET n == Len(list)
        s0 == IF start < 0 THEN n + start ELSE start
        e0 == IF stop < 0 THEN n + stop ELSE stop
        s == IF s0 < 0 THEN 0 ELSE s0
        e == IF e0 > n - 1 THEN n - 1 ELSE e0
    IN  IF s > e THEN <<>> ELSE SubSeq(list, s + 1, e + 1)

\* the decode loop of get_messages: undecodable items are skipped
RECURSIVE DecodeAll(_)
DecodeAll(raws) ==
    IF raws = <<>> THEN <<>>
    ELSE IF Decodable(Head(raws))
         THEN <<JsonLoads(Head(raws))>> \o DecodeAll(Tail(raws))
         ELSE DecodeAll(Tail(raws))

\* get_messages: lrange(key, -memory_size, -1), then decode
ReadWindow(list, memory_size) == DecodeAll(LRange(list, 0 - memory_size, 0 - 1))

-----------------------------------------------------------------------------
(* ShortTermMemoryProvider *)

\* what can go wrong inside one call: nothing, or RedisError from a command
RedisFaults == {"none", "rpush", "expire"}

\* add_message that pushes first and validates the role afterwards
STM_add_message_PushFirst(store, exp, t, key, role, message, fault) ==
    LET item == [role |-> role, content |-> message, timestamp |-> t]
        pushed == RPush(store, key, JsonDumps(item))
    IN  IF role \notin VALID_ROLES
        THEN [raised |-> "ValueError", redis |-> pushed, expireAt |-> exp]
        ELSE [raised |-> "none", redis |-> pushed,
              expireAt |-> Expire(pushed, exp, t, key, ttl_seconds)]

\* add_message at time t.  The result names the exception raised ("none" when
\* the call returns) and the Redis state the call leaves behind.
STM_add_message(store, exp, t, key, role, message, fault) ==
    IF role \notin VALID_ROLES
    THEN [raised |-> "ValueError", redis |-> store, expireAt |-> exp]
    ELSE IF fault = "rpush"
    THEN [raised |-> "ConnectionError", redis |-> store, expireAt |-> exp]
    ELSE LET item == [role |-> role, content |-> message, timestamp |-> t]
             pushed == RPush(store, key, JsonDumps(item))
         IN  IF fault = "expire"
             THEN [raised |-> "ConnectionError", redis |-> pushed,
                   expireAt |-> exp]
             ELSE [raised |-> "none", redis |-> pushed,
                   expireAt |-> Expire(pushed, exp, t, key, ttl_seconds)]

\* get_messages: the decoded window, or ConnectionError when lrange fails
STM_get_messages(store, key, memory_size, fault) ==
    IF fault = "lrange"
    THEN [raised |-> "ConnectionError", result |-> <<>>]
    ELSE [raised |-> "none", result |-> ReadWindow(store[key], memory_size)]

\* Redis deletes a key when its TTL has elapsed
Purge(store, exp, t) ==
    [k \in DOMAIN store |->
        IF exp[k] # NoTTL /\ exp[k] <= t THEN <<>> ELSE store[k]]

PurgeTTL(exp, t) ==
    [k \in DOMAIN exp |->
        IF exp[k] # NoTTL /\ exp[k] <= t THEN NoTTL ELSE exp[k]]

-----------------------------------------------------------------------------
(* Usage records: the four keys every result dict carries *)

ZeroUsage ==
    [tokens_prompt |-> 0, tokens_completion |-> 0, tokens_total |-> 0,
     cost_usd |-> 0]

UsageOf(d) ==
    [tokens_prompt |-> d.tokens_prompt,
     tokens_completion |-> d.tokens_completion,
     tokens_total |-> d.tokens_total, cost_usd |-> d.cost_usd]

\* {"response": text, **usage}
Result(text, u) ==
    [response |-> text, tokens_prompt |-> u.tokens_prompt,
     tokens_completion |-> u.tokens_completion,
     tokens_total |-> u.tokens_total, cost_usd |-> u.cost_usd]

NoResult == Result("", ZeroUsage)

\* Float arithmetic on cost_usd: the exact sum of two floats, rounded to the
\* nearest value whose significand fits MantissaBits bits, a tie going to
\* the even significand.  Costs are never negative.
RECURSIVE BitLength(_)
BitLength(n) == IF n = 0 THEN 0 ELSE 1 + BitLength(n \div 2)

RoundFloat(n) ==
    IF BitLength(n) <= MantissaBits THEN n
    ELSE LET q == 2 ^ (BitLength(n) - MantissaBits)
             lo == (n \div q) * q
             r == n - lo
         IN  CASE 2 * r < q -> lo
               [] 2 * r > q -> lo + q
               [] OTHER -> IF (n \div q) % 2 = 0 THEN lo ELSE lo + q

FloatAdd(a, b) == RoundFloat(a + b)

\* one step of sum(): the running value plus d[k], for each of the four keys
AddUsage(acc, d) ==
    [tokens_prompt |-> acc.tokens_prompt + d.tokens_prompt,
     tokens_completion |-> acc.tokens_completion + d.tokens_completion,
     tokens_total |-> acc.tokens_total + d.tokens_total,
     cost_usd |-> FloatAdd(acc.cost_usd, d.cost_usd)]

\* sum() adds from 0, left to right
RECURSIVE SumFrom(_, _)
SumFrom(start, dicts) ==
    IF dicts = <<>> THEN start
    ELSE SumFrom(AddUsage(start, Head(dicts)), Tail(dicts))

\* {k: sum(d[k] for d in dicts) for k in (the four keys)}
SumUsage(dicts) == SumFrom(ZeroUsage, dicts)

-----------------------------------------------------------------------------
(* The embedding provider and its price table *)

\* OPENAI_EMBEDDING_PRICES, in 1e-8 USD per token
PricedModels ==
    {"text-embedding-3-small", "text-embedding-3-large",
     "text-embedding-ada-002"}

OPENAI_EMBEDDING_PRICES ==
    [m \in PricedModels |->
        CASE m = "text-embedding-3-small" -> 2
          [] m = "text-embedding-3-large" -> 13
          [] m = "text-embedding-ada-002" -> 10]

\* config["embeddings"]["model"]: a priced model or one the table lacks
EmbeddingModels == {"text-embedding-3-small", "in-house-model"}

\* a _compute_cost that charges a model the table lacks at a default price
compute_cost_DefaultPrice(model, total_tokens) ==
    IF model \notin DOMAIN OPENAI_EMBEDDING_PRICES THEN total_tokens * 2
    ELSE total_tokens * OPENAI_EMBEDDING_PRICES[model]

\* _compute_cost: (total_tokens / 1_000_000) * price, in 1e-14 USD
compute_cost(model, total_tokens) ==
    IF model \notin DOMAIN OPENAI_EMBEDDING_PRICES THEN 0
    ELSE total_tokens * OPENAI_EMBEDDING_PRICES[model]

\* embedding_response.usage.total_tokens: the provider's count for a text
TokenCount(text) ==
    CASE text = "m1" -> 3
      [] text = "DENIED" -> 1
      [] text = "q1" -> 4
      [] text = "a1" -> 6
      [] OTHER -> 2

\* embedding_response.data[0].embedding: the direction of the vector, in
\* steps of 30 degrees
Direction(text) ==
    CASE text = "m1" -> 2
      [] text = "DENIED" -> 0
      [] text = "q1" -> 1
      [] text = "k1" -> 0
      [] text = "k2" -> 1
      [] OTHER -> 3

\* 1 - cosine_distance of two directions, times 1000
CosineSimilarity(a, b) ==
    LET d == IF a < b THEN b - a ELSE a - b
    IN  CASE d = 0 -> 1000 [] d = 1 -> 866 [] d = 2 -> 500 [] OTHER -> 0

\* _embed_query: the cost_info of embedding one text
embed_query(text, model) ==
    [tokens_prompt |-> TokenCount(text), tokens_completion |-> 0,
     tokens_total |-> TokenCount(text),
     cost_usd |-> compute_cost(model, TokenCount(text))]

\* one call to a provider, as the bill sees it
Call(kind, u) == [call |-> kind, usage |-> u]

-----------------------------------------------------------------------------
(* LongTermMemoryProvider *)

DbFaults == {"none", "embed", "db"}

\* an add_message that persists the embedding usage alone
LTM_add_message_EmbeddingOnly(rows, user_id, session_id, agent_name, role, result, model, fault) ==
    LET cost_info == embed_query(result.response, model)
        record == [user_id |-> user_id, session_id |-> session_id,
                   agent_name |-> agent_name, role |-> role,
                   message |-> result.response,
                   embedding |-> Direction(result.response),
                   usage_info |-> cost_info]
    IN  IF fault # "none"
        THEN [raised |-> "ProviderError", ltm |-> rows, result |-> NoResult,
              calls |-> <<>>]
        ELSE [raised |-> "none", ltm |-> Append(rows, record),
              result |-> Result(result.response,
                                SumUsage(<<result, cost_info>>)),
              calls |-> <<Call("embedding", cost_info)>>]

\* an add_message that keeps no row for the turns of the user
LTM_add_message_SkipsUserTurns(rows, user_id, session_id, agent_name, role, result, model, fault) ==
    LET cost_info == embed_query(result.response, model)
        updated_result == Result(result.response,
                                 SumUsage(<<result, cost_info>>))
        record == [user_id |-> user_id, session_id |-> session_id,
                   agent_name |-> agent_name, role |-> role,
                   message |-> result.response,
                   embedding |-> Direction(result.response),
                   usage_info |-> UsageOf(updated_result)]
    IN  CASE fault = "embed" ->
               [raised |-> "ProviderError", ltm |-> rows, result |-> NoResult,
                calls |-> <<>>]
          [] fault = "db" ->
               [raised |-> "StoreUnavailable", ltm |-> rows,
                result |-> NoResult,
                calls |-> <<Call("embedding", cost_info)>>]
          [] OTHER ->
               [raised |-> "none",
                ltm |-> IF role = "user" THEN rows ELSE Append(rows, record),
                result |-> updated_result,
                calls |-> <<Call("embedding", cost_info)>>]

\* add_message: embed result["response"], add the embedding usage to result,
\* insert the row, return the updated result
LTM_add_message(rows, user_id, session_id, agent_name, role, result, model, fault) ==
    IF fault = "embed"
    THEN [raised |-> "ProviderError", ltm |-> rows, result |-> NoResult,
          calls |-> <<>>]
    ELSE LET cost_info == embed_query(result.response, model)
             total_cost == SumUsage(<<result, cost_info>>)
             updated_result == Result(result.response, total_cost)
             record == [user_id |-> user_id, session_id |-> session_id,
                        agent_name |-> agent_name, role |-> role,
                        message |-> result.response,
                        embedding |-> Direction(result.response),
                        usage_info |-> UsageOf(updated_result)]
         IN  IF fault = "db"
             THEN [raised |-> "StoreUnavailable", ltm |-> rows,
                   result |-> NoResult,
                   calls |-> <<Call("embedding", cost_info)>>]
             ELSE [raised |-> "none", ltm |-> Append(rows, record),
                   result |-> updated_result,
                   calls |-> <<Call("embedding", cost_info)>>]

\* a LIMIT top_n without the ORDER BY
Rankings_AnyOrder(rows, q, top_n) ==
    LET m == Len(rows)
        k == IF top_n < m THEN top_n ELSE m
    IN  { f \in [1..k -> 1..m] : \A i, j \in 1..k : i # j => f[i] # f[j] }

\* ORDER BY score DESC LIMIT top_n: the index sequences the database may
\* return (rows of equal score come in either order)
Rankings(rows, q, top_n) ==
    LET m == Len(rows)
        k == IF top_n < m THEN top_n ELSE m
        score(i) == CosineSimilarity(rows[i].embedding, q)
    IN  { f \in [1..k -> 1..m] :
            /\ \A i, j \in 1..k : i # j => f[i] # f[j]
            /\ \A i \in 1..k, j \in 1..k : i < j => score(f[i]) >= score(f[j])
            /\ \A i \in 1..k, x \in 1..m :
                  (\A j \in 1..k : f[j] # x) => score(x) <= score(f[i]) }

\* the rows with the id the database gave them (their insertion number)
WithIds(rows) ==
    [i \in DOMAIN rows |->
        [id |-> i, user_id |-> rows[i].user_id,
         session_id |-> rows[i].session_id, agent_name |-> rows[i].agent_name,
         role |-> rows[i].role, message |-> rows[i].message,
         embedding |-> rows[i].embedding]]

\* a search that does not filter by user
LTM_get_messages_AllUsers(rows, user_id, query, top_n, model, fault) ==
    LET cost == embed_query(query, model)
        found == WithIds(rows)
    IN  IF fault # "none"
        THEN {[raised |-> "ProviderError", messages |-> <<>>,
               cost |-> ZeroUsage, calls |-> <<>>]}
        ELSE {[raised |-> "none",
               messages |-> [i \in DOMAIN f |->
                   [id |-> found[f[i]].id, user_id |-> found[f[i]].user_id,
                    session_id |-> found[f[i]].session_id,
                    agent_name |-> found[f[i]].agent_name,
                    role |-> found[f[i]].role,
                    message |-> found[f[i]].message,
                    score |-> CosineSimilarity(found[f[i]].embedding,
                                               Direction(query))]],
               cost |-> cost,
               calls |-> <<Call("recall_embedding", cost)>>] :
              f \in Rankings(found, Direction(query), top_n)}

\* get_messages: every (similar_messages, cost) the search can return for
\* the provider of user_id: embed the query, select the rows WHERE user_id
\* matches, ORDER BY similarity DESC, LIMIT top_n
LTM_get_messages(rows, user_id, query, top_n, model, fault) ==
    IF fault = "embed"
    THEN {[raised |-> "ProviderError", messages |-> <<>>, cost |-> ZeroUsage,
           calls |-> <<>>]}
    ELSE LET cost == embed_query(query, model)
             found == SelectSeq(WithIds(rows),
                                LAMBDA r : r.user_id = user_id)
         IN  IF fault = "db"
             THEN {[raised |-> "StoreUnavailable", messages |-> <<>>,
                    cost |-> ZeroUsage,
                    calls |-> <<Call("recall_embedding", cost)>>]}
             ELSE {[raised |-> "none",
                    messages |-> [i \in DOMAIN f |->
                        [id |-> found[f[i]].id,
                         user_id |-> found[f[i]].user_id,
                         session_id |-> found[f[i]].session_id,
                         agent_name |-> found[f[i]].agent_name,
                         role |-> found[f[i]].role,
                         message |-> found[f[i]].message,
                         score |-> CosineSimilarity(found[f[i]].embedding,
                                                    Direction(query))]],
                    cost |-> cost,
                    calls |-> <<Call("recall_embedding", cost)>>] :
                   f \in Rankings(found, Direction(query), top_n)}

-----------------------------------------------------------------------------
(* EmbeddingSearch over agent.agent_knowledge_embeddings *)

\* calculate_hash: the MD5 digest of the chunk.  Two of the texts below
\* collide.
calculate_hash(content) ==
    CASE content = "k1" -> "d1"
      [] content = "k2" -> "d2"
      [] OTHER -> "d3"

\* is_content_processed: SELECT COUNT(*) ... WHERE content_hash = %s, > 0
is_content_processed(rows, content_hash) ==
    \E i \in DOMAIN rows : rows[i].content_hash = content_hash

\* INSERT INTO agent.agent_knowledge_embeddings, under the constraint
\* embeddings_content_hash_key UNIQUE (content_hash)
insert_embedding_cursor(rows, content, embedding, content_hash) ==
    IF is_content_processed(rows, content_hash)
    THEN [raised |-> "UniqueViolation", rows |-> rows]
    ELSE [raised |-> "none",
          rows |-> Append(rows, [id |-> Len(rows) + 1, content |-> content,
                                 embedding |-> embedding,
                                 content_hash |-> content_hash])]

\* what can fail in one pass of the loop: the SELECT, the embedding call,
\* the INSERT
IngestFaults == {"none", "select", "embed", "insert"}

\* a loop body that embeds and inserts without asking for the hash first
process_chunk_NoHashCheck(rows, chunk, fault) ==
    LET content_hash == calculate_hash(chunk)
        inserted == insert_embedding_cursor(rows, chunk, Direction(chunk),
                                            content_hash)
    IN  CASE fault = "select" ->
               [raised |-> "DatabaseError", rows |-> rows, embedded |-> <<>>]
          [] fault = "embed" ->
               [raised |-> "ProviderError", rows |-> rows,
                embedded |-> <<chunk>>]
          [] fault = "insert" ->
               [raised |-> "DatabaseError", rows |-> rows,
                embedded |-> <<chunk>>]
          [] OTHER ->
               [raised |-> inserted.raised, rows |-> inserted.rows,
                embedded |-> <<chunk>>]

\* the body of the loop over the chunks of process_markdown_files: rows is
\* the table as the transaction of the run sees it, embedded the texts sent
\* to the embedding provider
process_chunk(rows, chunk, fault) ==
    LET content_hash == calculate_hash(chunk)
        inserted == insert_embedding_cursor(rows, chunk, Direction(chunk),
                                            content_hash)
    IN  CASE fault = "select" ->
               [raised |-> "DatabaseError", rows |-> rows, embedded |-> <<>>]
          [] is_content_processed(rows, content_hash) ->
               [raised |-> "none", rows |-> rows, embedded |-> <<>>]
          [] fault = "embed" ->
               [raised |-> "ProviderError", rows |-> rows,
                embedded |-> <<chunk>>]
          [] fault = "insert" ->
               [raised |-> "DatabaseError", rows |-> rows,
                embedded |-> <<chunk>>]
          [] OTHER ->
               [raised |-> inserted.raised, rows |-> inserted.rows,
                embedded |-> <<chunk>>]

\* the corpus, loaded offline by populate_db.py
KnowledgeCorpus ==
    LET one == process_chunk(<<>>, "k1", "none").rows
        two == process_chunk(one, "k2", "none").rows
    IN  process_chunk(two, "k3", "none").rows

\* get_similar_embeddings: every (similar_docs, embedding_cost) it can return
get_similar_embeddings(query, top_n, model, fault) ==
    IF fault = "embed"
    THEN {[raised |-> "ProviderError", docs |-> <<>>, cost |-> ZeroUsage,
           calls |-> <<>>]}
    ELSE LET cost == embed_query(query, model) IN
         IF fault = "db"
         THEN {[raised |-> "StoreUnavailable", docs |-> <<>>,
                cost |-> ZeroUsage, calls |-> <<Call("embedding", cost)>>]}
         ELSE {[raised |-> "none",
                docs |-> [i \in DOMAIN f |->
                            [id |-> knowledge[f[i]].id,
                             content |-> knowledge[f[i]].content,
                             score |-> CosineSimilarity(
                                 knowledge[f[i]].embedding,
                                 Direction(query))]],
                cost |-> cost,
                calls |-> <<Call("embedding", cost)>>] :
               f \in Rankings(knowledge, Direction(query), top_n)}

-----------------------------------------------------------------------------
(* Agent.run *)

\* cb.prompt_tokens, cb.completion_tokens, cb.total_tokens, cb.total_cost of
\* one model call: what the provider counts for this prompt and this reply,
\* at 3 units per prompt token and 7 per completion token
LLMUsage(message, reply) ==
    LET prompt == 5 + TokenCount(message)
        completion == TokenCount(reply)
    IN  [tokens_prompt |-> prompt, tokens_completion |-> completion,
         tokens_total |-> prompt + completion,
         cost_usd |-> 3 * prompt + 7 * completion]

\* What an Agent is built from: the flags of its entry in the configuration
\* file, the providers and the context the manager hands it.  context_text
\* is "" (none given), blank, or a text.
ContextTexts == {"", " ", "ctx"}

Agents ==
    [enabled : BOOLEAN, use_context : BOOLEAN, use_memory_history : BOOLEAN,
     short_term : BOOLEAN, long_term : BOOLEAN, context_text : ContextTexts]

\* the agents an AgentManager builds: both providers are handed to it
ManagedAgents(context_text) ==
    {a \in Agents : a.short_term /\ a.long_term
                     /\ a.context_text = context_text}

\* FileUtils.read_text(prompt_dir / f"{prompt_name}.txt").strip()
SystemPrompt == "system_prompt"

\* str.strip() on the context texts
Strip(text) == IF text = " " THEN "" ELSE text

\* top_n of the recall asked for during prompt assembly
RecallTopN == 3

\* what can go wrong inside one run: Redis on the read of the log, the
\* embedding provider or the database on recall, the chat model
RunFaults ==
    [stm : {"none", "lrange"}, ltm : DbFaults, model : {"none", "invoke"}]

NoFaults == [stm |-> "none", ltm |-> "none", model |-> "none"]

Section(name, body) == [name |-> name, body |-> body]

\* _format_context_as_text
format_context_as_text(agent) ==
    IF ~agent.use_context \/ agent.context_text = "" THEN ""
    ELSE Strip(agent.context_text)

\* _format_short_term_memory_as_text: the header line is left out, each
\* entry of the window becomes one line "<speaker>: <content>"
format_short_term_memory_as_text(agent, log, memory_size, fault) ==
    IF ~agent.use_memory_history \/ ~agent.short_term
    THEN [raised |-> "none", text |-> <<>>, reads |-> 0]
    ELSE LET o == STM_get_messages([k \in {"log"} |-> log], "log",
                                    memory_size, fault)
         IN  IF o.raised # "none"
             THEN [raised |-> o.raised, text |-> <<>>, reads |-> 1]
             ELSE [raised |-> "none",
                   text |-> [i \in DOMAIN o.result |->
                       [speaker |-> IF o.result[i].role = "user"
                                    THEN "Usuário" ELSE "Assistente",
                        content |-> o.result[i].content]],
                   reads |-> 1]

\* _format_long_term_memory_as_text: get_messages returns the pair
\* (similar_messages, cost); the pair is never empty, and the loop takes its
\* first element, a list, for a message: item["role"] raises TypeError
format_long_term_memory_as_text(agent, rows, user_id, user_input, model, fault) ==
    IF ~agent.use_memory_history \/ ~agent.long_term
    THEN {[raised |-> "none", text |-> <<>>, calls |-> <<>>]}
    ELSE {[raised |-> IF o.raised # "none" THEN o.raised ELSE "TypeError",
           text |-> <<>>, calls |-> o.calls] :
            o \in LTM_get_messages(rows, user_id, user_input, RecallTopN,
                                   model, fault)}

\* _build_messages: the system message (its sections, in order) and the
\* human message, or the exception raised on the way
build_messages(agent, log, rows, user_id, memory_size, user_input, model, faults) ==
    LET context_text == format_context_as_text(agent)
        stm == format_short_term_memory_as_text(agent, log, memory_size,
                                                faults.stm)
        sections(ltm_text) ==
            <<Section("system_prompt", SystemPrompt)>>
            \o (IF stm.text # <<>>
                THEN <<Section("short_term_memory", stm.text)>> ELSE <<>>)
            \o (IF ltm_text # <<>>
                THEN <<Section("long_term_memory", ltm_text)>> ELSE <<>>)
            \o (IF context_text # ""
                THEN <<Section("context", context_text)>> ELSE <<>>)
    IN  IF stm.raised # "none"
        THEN {[raised |-> stm.raised, messages |-> <<>>, calls |-> <<>>,
               reads |-> stm.reads]}
        ELSE {[raised |-> l.raised,
               messages |-> IF l.raised # "none" THEN <<>>
                            ELSE << [type |-> "system",
                                     content |-> sections(l.text)],
                                    [type |-> "human",
                                     content |-> <<Section("user_input",
                                                           user_input)>>] >>,
               calls |-> l.calls, reads |-> stm.reads] :
                l \in format_long_term_memory_as_text(
                          agent, rows, user_id, user_input, model, faults.ltm)}

\* a run that assembles the prompt before it looks at the enabled flag
Agent_run_BuildsFirst(agent, log, rows, user_id, memory_size, message, replies, model, faults) ==
    {[raised |-> b.raised,
      result |-> IF b.raised = "none" THEN Result(message, ZeroUsage)
                 ELSE NoResult,
      calls |-> b.calls, reads |-> b.reads, messages |-> b.messages] :
        b \in build_messages(agent, log, rows, user_id, memory_size, message,
                             model, faults)}

\* Agent.run: every way run(message) can end, with the result dict, the
\* calls made to the providers, the number of reads of the ephemeral log and
\* the messages assembled for the model
Agent_run(agent, log, rows, user_id, memory_size, message, replies, model, faults) ==
    IF ~agent.enabled
    THEN {[raised |-> "none", result |-> Result(message, ZeroUsage),
           calls |-> <<>>, reads |-> 0, messages |-> <<>>]}
    ELSE LET invoke(b) ==
                 IF b.raised # "none"
                 THEN {[raised |-> b.raised, result |-> NoResult,
                        calls |-> b.calls, reads |-> b.reads,
                        messages |-> b.messages]}
                 ELSE IF faults.model = "invoke"
                 THEN {[raised |-> "ModelCallError", result |-> NoResult,
                        calls |-> b.calls, reads |-> b.reads,
                        messages |-> b.messages]}
                 ELSE {[raised |-> "none",
                        result |-> Result(r, LLMUsage(message, r)),
                        calls |-> b.calls
                                  \o <<Call("model", LLMUsage(message, r))>>,
                        reads |-> b.reads, messages |-> b.messages] :
                         r \in replies}
         IN  UNION {invoke(b) :
                      b \in build_messages(agent, log, rows, user_id,
                                           memory_size, message, model,
                                           faults)}

\* AgentManager.run(agent_name, message): ValueError when the configuration
\* has no such agent, else what the agent's run gives.  The configuration
\* file (the agent's flags, short_term_memory.memory_size) is read when the
\* manager is built; each agent runs at most once per request, so its
\* entry is chosen here.  enabled tells whether the entry enables the agent.
AgentManager_run(log, rows, user_id, context_text, message, replies, model) ==
    {[raised |-> "ValueError", result |-> NoResult, calls |-> <<>>,
      enabled |-> FALSE]}
    \cup UNION {{[raised |-> o.raised, result |-> o.result,
                  calls |-> o.calls, enabled |-> a.enabled] :
                    o \in UNION {Agent_run(a, log, rows, user_id, k, message,
                                           replies, model, f) :
                                    k \in 0..MaxWindow, f \in RunFaults}} :
                 a \in ManagedAgents(context_text)}

-----------------------------------------------------------------------------
(* The tool flows and the local energy agent *)

INPUT_GUARDRAIL_DENIED_RESPONSE ==
    "A mensagem está fora das diretrizes do agente. Por favor, tente novamente."
GENERIC_FAILURE ==
    "There was an error processing your query. Please try again later."
DEVICE_NAME_GUIDANCE ==
    "Por favor, informe o nome do dispositivo para buscar os alarmes."

GuardrailReplies == {"DENIED", "ALLOWED"}
RewriterReplies == {"q1"}
AnswerReplies == {"a1"}

\* replies of the intent classifier: a mapping with an "intent" item, or text
IntentReplies ==
    {"{intent:user_manual}", "{intent:energy_only}", "{intent:device_alarms}",
     "{intent:smalltalk}", "text"}

HasIntent(response) == response \in IntentReplies \ {"text"}

\* response["intent"]
IntentOf(response) ==
    CASE response = "{intent:user_manual}" -> "user_manual"
      [] response = "{intent:energy_only}" -> "energy_only"
      [] response = "{intent:device_alarms}" -> "device_alarms"
      [] OTHER -> "smalltalk"

\* replies of the device_alarms agent: a mapping with device_name and
\* end_time (either may be the empty string), or text
AlarmReplies ==
    {"{device:GOB-02,end:2025-01-01}", "{device:,end:2025-01-01}",
     "{device:GOB-02,end:}", "{device:,end:}", "text"}

IsAlarmQuery(response) == response \in AlarmReplies \ {"text"}

DeviceName(response) ==
    IF response \in {"{device:GOB-02,end:2025-01-01}", "{device:GOB-02,end:}"}
    THEN "GOB-02" ELSE ""

EndTime(response) ==
    IF response \in {"{device:GOB-02,end:2025-01-01}",
                     "{device:,end:2025-01-01}"}
    THEN "2025-01-01" ELSE ""

\* "\n\n".join(doc["content"] for doc in similar_docs), kept as the list of
\* the parts joined
JoinContents(docs) == [i \in DOMAIN docs |-> docs[i].content]

\* request_body.context as the tool's agent gets it: the joined contents,
\* or "" when nothing was retrieved or no context was sent
ContextText(given) ==
    IF given.has_context /\ given.context # <<>> THEN "ctx" ELSE ""

\* what a branch flow is handed
Given(name, message, has_context, context) ==
    [name |-> name, message |-> message, has_context |-> has_context,
     context |-> context]

\* user_manual_tool: the manager is built with context_text = the request's
\* context and runs the user_manual agent; any exception becomes HTTP 500
user_manual_tool(log, rows, user_id, context, message, model) ==
    {[raised |-> IF o.raised = "none" THEN "none" ELSE "HTTP500",
      result |-> o.result, calls |-> o.calls] :
        o \in AgentManager_run(log, rows, user_id, context, message,
                              AnswerReplies, model)}

\* datetime.now().strftime("%Y-%m-%d") of the day the request is served
Today == "today"

\* device_alarms_tool: runs the device_alarms agent, reads end_time and
\* device_name off its reply, asks the alarms API, filters by device.
\* reply is what the agent answered, end_time the cutoff sent to the API
\* ("" when none was sent), api how the API call went.
device_alarms_tool(log, rows, user_id, message, model) ==
    LET failed(o, sent, api) ==
          [raised |-> "HTTP500", result |-> NoResult, calls |-> o.calls,
           reply |-> o.result.response, end_time |-> sent, api |-> api]
        flow(o) ==
          IF o.raised # "none" \/ ~IsAlarmQuery(o.result.response)
          THEN {failed(o, "", "none")}
          ELSE LET end_time == EndTime(o.result.response) IN
               IF end_time = ""
               THEN \* datetime.now() on the datetime module: AttributeError
                    {failed(o, "", "none")}
               ELSE {failed(o, end_time, "failed"),
                     [raised |-> "none",
                      result |-> [o.result EXCEPT !.response =
                          IF DeviceName(o.result.response) # ""
                          THEN "Alarmes encontrados para o dispositivo GOB-02"
                          ELSE DEVICE_NAME_GUIDANCE],
                      calls |-> o.calls, reply |-> o.result.response,
                      end_time |-> end_time, api |-> "ok"]}
    IN  UNION {flow(o) : o \in AgentManager_run(log, rows, user_id, "", message,
                                               AlarmReplies, model)}

\* lines 128-195: the branch taken for an intent tag
BranchFor(agent_tool) ==
    IF agent_tool = "user_manual" THEN "user_manual"
    ELSE IF agent_tool = "device_alarms" THEN "device_alarms"
    ELSE "energy_only"

\* a dispatch that hands the retrieved context to whichever branch runs
BranchRequest_ContextToAll(branch, similar_docs, rewritten) ==
    Given(branch, rewritten, TRUE, JoinContents(similar_docs))

\* lines 134-142, 165-170, 192-194: what the branch is called with
BranchRequest(branch, similar_docs, rewritten) ==
    IF branch = "user_manual"
    THEN Given(branch, rewritten, TRUE, JoinContents(similar_docs))
    ELSE Given(branch, rewritten, FALSE, <<>>)

\* the outcomes of running a branch; a tool flow that answers 500 has no
\* "response" item and line 199 raises KeyError
RunBranch(given, log, rows, user_id, model) ==
    IF given.name = "user_manual"
    THEN user_manual_tool(log, rows, user_id, ContextText(given),
                          given.message, model)
    ELSE IF given.name = "device_alarms"
    THEN device_alarms_tool(log, rows, user_id, given.message, model)
    ELSE AgentManager_run(log, rows, user_id, "", given.message,
                          AnswerReplies, model)

-----------------------------------------------------------------------------
(* agent_ai_brain, stage by stage *)

NoRequest == [user_id |-> "", session_id |-> "", message |-> "", model |-> ""]

NoLocals ==
    [guardrail_enabled |-> FALSE,
     guardrail_reply |-> "",
     input_guardrail_result |-> NoResult,
     add_user_long_term_memory_result |-> NoResult,
     rewriter_result |-> NoResult,
     similar_docs |-> <<>>,
     embedding_result |-> ZeroUsage,
     intent_classifier_agent_result |-> NoResult,
     agent_name |-> "",
     intent_classifier_result |-> NoResult,
     result |-> NoResult,
     error |-> "none"]

NoReply == [status |-> 0, body |-> NoResult, detail |-> ""]

\* no request in flight
NoFlight == <<>>

\* no run of populate_db.py under way
NoIngest ==
    [pc |-> "idle", before |-> <<>>, chunks |-> <<>>, idx |-> 1,
     rows |-> <<>>, steps |-> <<>>, raised |-> "none"]

InitIdle ==
    /\ pc = "idle"
    /\ req = NoRequest
    /\ loc = NoLocals
    /\ out = NoReply
    /\ pre = [redis |-> redis, expireAt |-> expireAt, ltm |-> ltm]
    /\ trace = <<>>
    /\ calls = <<>>
    /\ branches = <<>>
    /\ knowledge = KnowledgeCorpus
    /\ ingest = NoIngest
    /\ flight = NoFlight
    /\ writes = <<>>

SessionKey == Key(req.user_id, req.session_id)

\* an except clause that passes the exception on to the caller
Fail_WithDetail(e) ==
    /\ pc' = "failed"
    /\ loc' = [loc EXCEPT !.error = e]
    /\ out' = [status |-> 500, body |-> NoResult, detail |-> e]

\* the except clause of agent_ai_brain: log, then HTTP 500 with a fixed text
Fail(e) ==
    /\ pc' = "failed"
    /\ loc' = [loc EXCEPT !.error = e]
    /\ out' = [status |-> 500, body |-> NoResult, detail |-> GENERIC_FAILURE]

Stage(name) == trace' = Append(trace, name)

\* a handler that records the user turn in semantic memory only
AfterGuardrail_SemanticOnly(input_guardrail_result) ==
    IF input_guardrail_result.response = "DENIED" THEN "denied" ELSE "ltm_user"

\* a handler without the early return of line 78
AfterGuardrail_NoReturn(input_guardrail_result) == "stm_user"

\* lines 74-78: where the handler goes after the guardrail agent
AfterGuardrail(input_guardrail_result) ==
    IF input_guardrail_result.response = "DENIED" THEN "denied"
    ELSE "stm_user"

\* a denial that answers with a fresh dict instead of the guardrail's
DeniedResult_FreshDict(input_guardrail_result) ==
    Result(INPUT_GUARDRAIL_DENIED_RESPONSE, ZeroUsage)

\* lines 75-78: the guardrail's own dict with the response replaced
DeniedResult(input_guardrail_result) ==
    [input_guardrail_result EXCEPT
        !.response = INPUT_GUARDRAIL_DENIED_RESPONSE]

\* a list of records that leaves the rewriter's out
cost_results_dicts_NoRewriter(l) ==
    << l.input_guardrail_result, l.add_user_long_term_memory_result,
       l.embedding_result, l.intent_classifier_agent_result,
       l.intent_classifier_result >>

\* lines 205-212
cost_results_dicts(l) ==
    << l.input_guardrail_result, l.add_user_long_term_memory_result,
       l.rewriter_result, l.embedding_result,
       l.intent_classifier_agent_result, l.intent_classifier_result >>

Receive ==
    /\ pc = "idle"
    /\ \E u \in Users, s \in Sessions, m \in UserMsgs, em \in EmbeddingModels :
          req' = [user_id |-> u, session_id |-> s, message |-> m,
                  model |-> em]
    /\ pre' = [redis |-> redis, expireAt |-> expireAt, ltm |-> ltm]
    /\ pc' = "guardrail"
    /\ UNCHANGED <<otherVars, now, redis, expireAt, stmVars, ltm, loc, out, trace, calls,
                   branches>>

Guardrail ==
    /\ pc = "guardrail"
    /\ Stage("guardrail")
    /\ \E o \in AgentManager_run(redis[SessionKey], ltm, req.user_id, "",
                                 req.message, GuardrailReplies, req.model) :
          /\ calls' = calls \o o.calls
          /\ IF o.raised # "none" THEN Fail(o.raised)
             ELSE /\ pc' = AfterGuardrail(o.result)
                  /\ loc' = [loc EXCEPT
                        !.guardrail_enabled = o.enabled,
                        !.guardrail_reply = o.result.response,
                        !.input_guardrail_result =
                            IF pc' = "denied" THEN DeniedResult(o.result)
                            ELSE o.result]
                  /\ out' = IF pc' = "denied"
                            THEN [status |-> 200,
                                  body |-> DeniedResult(o.result),
                                  detail |-> ""]
                            ELSE out
    /\ UNCHANGED <<otherVars, now, redis, expireAt, stmVars, ltm, req, pre, branches>>

\* the entries a call added at the end of a list or table
Added(before, after) == SubSeq(after, Len(before) + 1, Len(after))

\* what the history keeps of an entry added to a memory
Written(tier, role, content) ==
    [tier |-> tier, role |-> role, content |-> content]

\* short_term_memory_provider.add_message at lines 81 and 198
StmWrite(at, role, message, next) ==
    /\ pc = at
    /\ Stage(at)
    /\ \E f \in RedisFaults :
          LET o == STM_add_message(redis, expireAt, now, SessionKey, role,
                                   message, f)
              added == Added(redis[SessionKey], o.redis[SessionKey])
          IN  /\ redis' = o.redis
              /\ expireAt' = o.expireAt
              /\ writes' = writes \o [i \in DOMAIN added |->
                                Written("stm", added[i].role,
                                        added[i].content)]
              /\ IF o.raised # "none" THEN Fail(o.raised)
                 ELSE pc' = next /\ UNCHANGED <<loc, out>>
    /\ UNCHANGED <<ingestVars, flight, now, stmVars, ltm, req, pre, calls, branches>>

StmUser == StmWrite("stm_user", "user", req.message, "ltm_user")

LtmUser ==
    /\ pc = "ltm_user"
    /\ Stage("ltm_user")
    /\ \E f \in DbFaults :
          LET o == LTM_add_message(ltm, req.user_id, req.session_id, "user",
                                   "user", Result(req.message, ZeroUsage),
                                   req.model, f)
              added == Added(ltm, o.ltm)
          IN  /\ ltm' = o.ltm
              /\ writes' = writes \o [i \in DOMAIN added |->
                                Written("ltm", added[i].role,
                                        added[i].message)]
              /\ calls' = calls \o o.calls
              /\ IF o.raised # "none" THEN Fail(o.raised)
                 ELSE /\ pc' = "rewrite"
                      /\ loc' = [loc EXCEPT
                            !.add_user_long_term_memory_result = o.result]
                      /\ UNCHANGED out
    /\ UNCHANGED <<ingestVars, flight, now, redis, expireAt, stmVars, req, pre, branches>>

Rewrite ==
    /\ pc = "rewrite"
    /\ Stage("rewrite")
    /\ \E o \in AgentManager_run(redis[SessionKey], ltm, req.user_id, "",
                                 req.message, RewriterReplies, req.model) :
          /\ calls' = calls \o o.calls
          /\ IF o.raised # "none" THEN Fail(o.raised)
             ELSE /\ pc' = "retrieve"
                  /\ loc' = [loc EXCEPT !.rewriter_result = o.result]
                  /\ UNCHANGED out
    /\ UNCHANGED <<otherVars, now, redis, expireAt, stmVars, ltm, req, pre, branches>>

Retrieve ==
    /\ pc = "retrieve"
    /\ Stage("retrieve")
    /\ \E f \in DbFaults :
       \E o \in get_similar_embeddings(loc.rewriter_result.response,
                                       KnowledgeTopN, req.model, f) :
          /\ calls' = calls \o o.calls
          /\ IF o.raised # "none" THEN Fail(o.raised)
             ELSE /\ pc' = "classify"
                  /\ loc' = [loc EXCEPT !.similar_docs = o.docs,
                                        !.embedding_result = o.cost]
                  /\ UNCHANGED out
    /\ UNCHANGED <<otherVars, now, redis, expireAt, stmVars, ltm, req, pre, branches>>

Classify ==
    /\ pc = "classify"
    /\ Stage("classify")
    /\ \E o \in AgentManager_run(redis[SessionKey], ltm, req.user_id, "",
                                 loc.rewriter_result.response, IntentReplies,
                                 req.model) :
          /\ calls' = calls \o o.calls
          /\ IF o.raised # "none" THEN Fail(o.raised)
             ELSE /\ pc' = "dispatch"
                  /\ loc' = [loc EXCEPT
                        !.intent_classifier_agent_result = o.result]
                  /\ UNCHANGED out
    /\ UNCHANGED <<otherVars, now, redis, expireAt, stmVars, ltm, req, pre, branches>>

Dispatch ==
    /\ pc = "dispatch"
    /\ Stage("dispatch")
    /\ IF ~HasIntent(loc.intent_classifier_agent_result.response)
       THEN \* line 128 indexes a text reply with "intent": TypeError
            /\ Fail("TypeError")
            /\ UNCHANGED <<calls, branches>>
       ELSE LET agent_tool ==
                    IntentOf(loc.intent_classifier_agent_result.response)
                branch == BranchFor(agent_tool)
                given == BranchRequest(branch, loc.similar_docs,
                                       loc.rewriter_result.response)
            IN  /\ branches' = Append(branches, given)
                /\ \E o \in RunBranch(given, redis[SessionKey], ltm,
                                      req.user_id, req.model) :
                      /\ calls' = calls \o o.calls
                      /\ IF o.raised # "none" THEN Fail(o.raised)
                         ELSE /\ pc' = "stm_assistant"
                              /\ loc' = [loc EXCEPT
                                    !.agent_name = branch,
                                    !.intent_classifier_result = o.result]
                              /\ UNCHANGED out
    /\ UNCHANGED <<otherVars, now, redis, expireAt, stmVars, ltm, req, pre>>

StmAssistant ==
    StmWrite("stm_assistant", "assistant",
             loc.intent_classifier_result.response, "total_cost")

TotalCost ==
    /\ pc = "total_cost"
    /\ Stage("total_cost")
    /\ loc' = [loc EXCEPT !.result =
                  Result(loc.intent_classifier_result.response,
                         SumUsage(cost_results_dicts(loc)))]
    /\ pc' = "ltm_assistant"
    /\ UNCHANGED <<otherVars, now, redis, expireAt, stmVars, ltm, req, out, pre, calls,
                   branches>>

LtmAssistant ==
    /\ pc = "ltm_assistant"
    /\ Stage("ltm_assistant")
    /\ \E f \in DbFaults :
          LET o == LTM_add_message(ltm, req.user_id, req.session_id,
                                   loc.agent_name, "assistant", loc.result,
                                   req.model, f)
              added == Added(ltm, o.ltm)
          IN  /\ ltm' = o.ltm
              /\ writes' = writes \o [i \in DOMAIN added |->
                                Written("ltm", added[i].role,
                                        added[i].message)]
              /\ calls' = calls \o o.calls
              /\ IF o.raised # "none" THEN Fail(o.raised)
                 ELSE /\ pc' = "done"
                      /\ loc' = [loc EXCEPT !.result = o.result]
                      /\ out' = [status |-> 200, body |-> o.result,
                                 detail |-> ""]
    /\ UNCHANGED <<ingestVars, flight, now, redis, expireAt, stmVars, req, pre, branches>>

-----------------------------------------------------------------------------
(* SpecSTM: the provider of one session, called in any order *)

NoOp == [kind |-> "none", role |-> "", size |-> 0, at |-> 0,
         raised |-> "none", log |-> <<>>, result |-> <<>>]

\* the session the store is driven for under SpecSTM
STMKey == Key("u1", "s1")

STMAdd ==
    \E r \in Roles, m \in UserMsgs, f \in RedisFaults :
        LET o == STM_add_message(redis, expireAt, now, STMKey, r, m, f)
        IN  /\ Len(o.redis[STMKey]) <= MaxLog
            /\ redis' = o.redis
            /\ expireAt' = o.expireAt
            /\ lastOk' = IF o.raised = "none"
                         THEN [lastOk EXCEPT ![STMKey] = now] ELSE lastOk
            /\ lastPush' = IF o.redis # redis
                           THEN [lastPush EXCEPT ![STMKey] = now] ELSE lastPush
            /\ op' = [NoOp EXCEPT !.kind = "add", !.role = r, !.at = now,
                                  !.raised = o.raised, !.log = redis[STMKey]]
            /\ UNCHANGED <<otherVars, now, pipeVars>>

STMGet ==
    \E size \in 0..MaxWindow, f \in {"none", "lrange"} :
        LET o == STM_get_messages(redis, STMKey, size, f)
        IN  /\ op' = [NoOp EXCEPT !.kind = "get", !.size = size, !.at = now,
                                  !.raised = o.raised, !.log = redis[STMKey],
                                  !.result = o.result]
            /\ UNCHANGED <<otherVars, now, redis, expireAt, lastOk, lastPush, pipeVars>>

Tick ==
    /\ now + TickStep <= MaxTime
    /\ now' = now + TickStep
    /\ redis' = Purge(redis, expireAt, now')
    /\ expireAt' = PurgeTTL(expireAt, now')
    /\ UNCHANGED <<otherVars, stmVars, pipeVars>>

InitStores ==
    /\ now = 0
    /\ redis = [k \in Keys |-> <<>>]
    /\ expireAt = [k \in Keys |-> NoTTL]

InitHistory ==
    /\ lastOk = [k \in Keys |-> Never]
    /\ lastPush = [k \in Keys |-> Never]
    /\ op = NoOp

InitSTM ==
    /\ InitStores
    /\ InitHistory
    /\ ltm = <<>>
    /\ InitIdle

NextSTM == STMAdd \/ STMGet \/ Tick

SpecSTM == InitSTM /\ [][NextSTM]_vars

-----------------------------------------------------------------------------
(* SpecDecode: reads of a session log that holds damaged items *)

\* a stored string json.loads raises JSONDecodeError on
Garbled == [ok |-> FALSE, role |-> "", content |-> "", timestamp |-> 0]

\* what a list item can be: something add_message wrote, or a damaged string
RawItems ==
    {JsonDumps([role |-> "user", content |-> "m1", timestamp |-> 0]),
     JsonDumps([role |-> "assistant", content |-> "a1", timestamp |-> 0]),
     Garbled}

RECURSIVE ListsUpTo(_)
ListsUpTo(n) ==
    IF n = 0 THEN {<<>>}
    ELSE LET shorter == ListsUpTo(n - 1)
         IN  shorter \cup {Append(l, x) : l \in shorter, x \in RawItems}

InitDecode ==
    /\ now = 0
    /\ \E l \in ListsUpTo(MaxStored) :
          /\ redis = [k \in Keys |-> IF k = STMKey THEN l ELSE <<>>]
          /\ expireAt = [k \in Keys |->
                            IF k = STMKey /\ l # <<>> THEN ttl_seconds
                            ELSE NoTTL]
    /\ InitHistory
    /\ ltm = <<>>
    /\ InitIdle

NextDecode == STMGet \/ Tick

SpecDecode == InitDecode /\ [][NextDecode]_vars

-----------------------------------------------------------------------------
(* SpecLTM: the semantic store and the knowledge search, called in any order *)

\* who appends: one user from two sessions, another user from one
Writers ==
    {[user_id |-> "u1", session_id |-> "s1"],
     [user_id |-> "u1", session_id |-> "s2"],
     [user_id |-> "u2", session_id |-> "s1"]}

Queries == {"m1", "q1"}

\* the turns callers append: the user's message with no usage of its own,
\* the assistant's reply with the usage of its generation
Turns ==
    {[agent_name |-> "user", role |-> "user",
      result |-> Result("m1", ZeroUsage)],
     [agent_name |-> "energy_only", role |-> "assistant",
      result |-> Result("a1", LLMUsage("q1", "a1"))]}

NoSearch ==
    [kind |-> "none", user |-> "", session |-> "", query |-> "", top_n |-> 0,
     fault |-> "none", raised |-> "none", rows |-> <<>>, given |-> NoResult,
     returned |-> NoResult, result |-> <<>>, cost |-> ZeroUsage,
     calls |-> <<>>]

\* A behaviour is a series of appends followed by one search: a search leaves
\* the store as it was, so whatever could follow it could follow the append
\* before it.
Appending == op.kind \in {"none", "ltm_add"}

LTMAdd ==
    /\ Appending
    /\ Len(ltm) < MaxRows
    /\ \E w \in Writers, t \in Turns, f \in DbFaults :
          LET o == LTM_add_message(ltm, w.user_id, w.session_id, t.agent_name,
                                   t.role, t.result, req.model, f)
          IN  /\ ltm' = o.ltm
              /\ op' = [NoSearch EXCEPT
                    !.kind = "ltm_add", !.user = w.user_id,
                    !.session = w.session_id,
                    !.fault = f, !.raised = o.raised, !.rows = ltm,
                    !.given = t.result, !.returned = o.result,
                    !.calls = o.calls]
    /\ UNCHANGED <<otherVars, now, redis, expireAt, lastOk, lastPush, pc, req, loc, out,
                   pre, trace, calls, branches>>

LTMSearch ==
    /\ Appending
    /\ \E u \in Users, q \in Queries, n \in 0..MaxTopN, f \in DbFaults :
       \E o \in LTM_get_messages(ltm, u, q, n, req.model, f) :
          op' = [NoSearch EXCEPT
                    !.kind = "ltm_search", !.user = u, !.query = q,
                    !.top_n = n, !.fault = f, !.raised = o.raised,
                    !.rows = ltm, !.result = o.messages, !.cost = o.cost,
                    !.calls = o.calls]
    /\ UNCHANGED <<otherVars, now, redis, expireAt, lastOk, lastPush, pipeVars>>

KnowledgeSearch ==
    /\ Appending
    /\ \E q \in Queries, n \in 0..MaxTopN, f \in DbFaults :
       \E o \in get_similar_embeddings(q, n, req.model, f) :
          op' = [NoSearch EXCEPT
                    !.kind = "knowledge_search", !.query = q, !.top_n = n,
                    !.fault = f, !.raised = o.raised,
                    !.rows = knowledge, !.result = o.docs,
                    !.cost = o.cost, !.calls = o.calls]
    /\ UNCHANGED <<otherVars, now, redis, expireAt, lastOk, lastPush, pipeVars>>

\* the providers are built for one configuration: config["embeddings"]["model"]
InitLTM ==
    /\ InitStores
    /\ lastOk = [k \in Keys |-> Never]
    /\ lastPush = [k \in Keys |-> Never]
    /\ op = NoSearch
    /\ ltm = <<>>
    /\ pc = "idle"
    /\ \E em \in EmbeddingModels : req = [NoRequest EXCEPT !.model = em]
    /\ loc = NoLocals
    /\ out = NoReply
    /\ pre = [redis |-> redis, expireAt |-> expireAt, ltm |-> ltm]
    /\ trace = <<>>
    /\ calls = <<>>
    /\ branches = <<>>
    /\ knowledge = KnowledgeCorpus
    /\ ingest = NoIngest
    /\ flight = NoFlight
    /\ writes = <<>>

NextLTM == LTMAdd \/ LTMSearch \/ KnowledgeSearch

SpecLTM == InitLTM /\ [][NextLTM]_vars

-----------------------------------------------------------------------------
(* Spec: one request through the pipeline *)

\* The stores a request can find: empty, or holding the turn an earlier
\* request of (u1, s1) recorded at time 0.
EarlierRedis ==
    LET empty == [k \in Keys |-> <<>>]
        none == [k \in Keys |-> NoTTL]
        first == STM_add_message(empty, none, 0, Key("u1", "s1"), "user",
                                 "m1", "none")
    IN  STM_add_message(first.redis, first.expireAt, 0, Key("u1", "s1"),
                        "assistant", "a1", "none")

EarlierLtm ==
    LET model == "text-embedding-3-small"
        first == LTM_add_message(<<>>, "u1", "s1", "user", "user",
                                 Result("m1", ZeroUsage), model, "none")
    IN  LTM_add_message(first.ltm, "u1", "s1", "energy_only", "assistant",
                        Result("a1", LLMUsage("q1", "a1")),
                        model, "none").ltm

Init ==
    /\ now = 0
    /\ \/ /\ redis = [k \in Keys |-> <<>>]
          /\ expireAt = [k \in Keys |-> NoTTL]
          /\ ltm = <<>>
       \/ /\ redis = EarlierRedis.redis
          /\ expireAt = EarlierRedis.expireAt
          /\ ltm = EarlierLtm
    /\ InitHistory
    /\ InitIdle

Next ==
    \/ Receive
    \/ Guardrail
    \/ StmUser
    \/ LtmUser
    \/ Rewrite
    \/ Retrieve
    \/ Classify
    \/ Dispatch
    \/ StmAssistant
    \/ TotalCost
    \/ LtmAssistant
    \/ Tick

Spec == Init /\ [][Next]_vars

-----------------------------------------------------------------------------
(* SpecMerge: the usage merge applied to lists of usage records *)

\* usage records a result dict can carry: the all-zero record of a disabled
\* agent or of a user turn, and records of calls with small and large costs
UsageSamples ==
    {ZeroUsage} \cup
    {[tokens_prompt |-> p, tokens_completion |-> 1, tokens_total |-> p + 1,
      cost_usd |-> c] : p \in {2, 3}, c \in {1, 2 ^ MantissaBits}}

\* the orders a list of n records can be given in
Orders(n) == {f \in [1..n -> 1..n] : \A i, j \in 1..n : f[i] = f[j] => i = j}

Reordered(dicts, order) == [i \in DOMAIN dicts |-> dicts[order[i]]]

\* the merge of the merges of the two parts of a list, as when the total of
\* the pipeline is merged again by the semantic write
Grouped(dicts, split) ==
    SumUsage(<<SumUsage(SubSeq(dicts, 1, split)),
               SumUsage(SubSeq(dicts, split + 1, Len(dicts)))>>)

NoMerge ==
    [kind |-> "none", dicts |-> <<>>, order |-> <<>>, split |-> 0,
     merged |-> ZeroUsage, reordered |-> ZeroUsage, grouped |-> ZeroUsage,
     with_zero |-> <<>>]

Merge ==
    /\ op.kind = "none"
    /\ \E n \in 1..MaxDicts :
       \E dicts \in [1..n -> UsageSamples], order \in Orders(n),
          split \in 0..n :
          op' = [kind |-> "merge", dicts |-> dicts, order |-> order,
                 split |-> split, merged |-> SumUsage(dicts),
                 reordered |-> SumUsage(Reordered(dicts, order)),
                 grouped |-> Grouped(dicts, split),
                 with_zero |-> [i \in 1..n |->
                                   SumUsage(<<dicts[i], ZeroUsage>>)]]
    /\ UNCHANGED <<otherVars, now, redis, expireAt, lastOk, lastPush, pipeVars>>

InitMerge ==
    /\ InitStores
    /\ lastOk = [k \in Keys |-> Never]
    /\ lastPush = [k \in Keys |-> Never]
    /\ op = NoMerge
    /\ ltm = <<>>
    /\ InitIdle

NextMerge == Merge

SpecMerge == InitMerge /\ [][NextMerge]_vars

-----------------------------------------------------------------------------
(* SpecIngest: runs of populate_db.py, one after the other *)

\* chunks the splitter can give: three texts of the manual, and a text with
\* the digest of the third
Chunks == {"k1", "k2", "k3", "k3x"}

RECURSIVE ChunkLists(_)
ChunkLists(n) ==
    IF n = 0 THEN {<<>>}
    ELSE LET shorter == ChunkLists(n - 1)
         IN  shorter \cup {Append(l, c) : l \in shorter, c \in Chunks}

\* psycopg2.connect and the cursor: a transaction that sees the committed
\* table; the files are read and split into chunks
IngestStart ==
    /\ ingest.pc = "idle"
    /\ \E chunks \in ChunkLists(MaxChunks) :
          ingest' = [pc |-> "running", before |-> knowledge,
                     chunks |-> chunks, idx |-> 1, rows |-> knowledge,
                     steps |-> <<>>, raised |-> "none"]
    /\ UNCHANGED <<knowledge, flight, writes, now, redis, expireAt, stmVars, pipeVars>>

\* one chunk; an exception goes to the except clause: conn.rollback(), raise
IngestChunk ==
    /\ ingest.pc = "running"
    /\ ingest.idx <= Len(ingest.chunks)
    /\ \E f \in IngestFaults :
          LET chunk == ingest.chunks[ingest.idx]
              o == process_chunk(ingest.rows, chunk, f)
              step == [content_hash |-> calculate_hash(chunk),
                       stored |-> is_content_processed(
                                      ingest.rows, calculate_hash(chunk)),
                       embedded |-> Len(o.embedded),
                       inserted |-> Len(o.rows) - Len(ingest.rows)]
          IN  ingest' = [ingest EXCEPT
                            !.pc = IF o.raised = "none" THEN "running"
                                   ELSE "idle",
                            !.idx = @ + 1,
                            !.rows = IF o.raised = "none" THEN o.rows
                                     ELSE knowledge,
                            !.steps = Append(@, step),
                            !.raised = o.raised]
    /\ UNCHANGED <<knowledge, flight, writes, now, redis, expireAt, stmVars, pipeVars>>

\* conn.commit() after the last chunk of the last file, or its failure
IngestCommit ==
    /\ ingest.pc = "running"
    /\ ingest.idx > Len(ingest.chunks)
    /\ \E f \in {"none", "commit"} :
          IF f = "none"
          THEN /\ knowledge' = ingest.rows
               /\ ingest' = [ingest EXCEPT !.pc = "idle"]
          ELSE /\ knowledge' = knowledge
               /\ ingest' = [ingest EXCEPT !.pc = "idle",
                                           !.rows = knowledge,
                                           !.raised = "DatabaseError"]
    /\ UNCHANGED <<flight, writes, now, redis, expireAt, stmVars, pipeVars>>

InitIngest ==
    /\ InitStores
    /\ InitHistory
    /\ ltm = <<>>
    /\ pc = "idle"
    /\ req = NoRequest
    /\ loc = NoLocals
    /\ out = NoReply
    /\ pre = [redis |-> redis, expireAt |-> expireAt, ltm |-> ltm]
    /\ trace = <<>>
    /\ calls = <<>>
    /\ branches = <<>>
    /\ knowledge = <<>>
    /\ ingest = NoIngest
    /\ flight = NoFlight
    /\ writes = <<>>

NextIngest == IngestStart \/ IngestChunk \/ IngestCommit

SpecIngest == InitIngest /\ [][NextIngest]_vars

-----------------------------------------------------------------------------
(* SpecTool: one request to the device-alarms endpoint *)

NoTool ==
    [kind |-> "none", user |-> "", message |-> "", model |-> "",
     raised |-> "none", result |-> NoResult, reply |-> "", end_time |-> "",
     api |-> "none", calls |-> <<>>]

\* POST /device_alarms
DeviceAlarms ==
    /\ op.kind = "none"
    /\ \E u \in Users, m \in UserMsgs, em \in EmbeddingModels :
       \E o \in device_alarms_tool(redis[Key(u, "s1")], ltm, u, m, em) :
          op' = [kind |-> "device_alarms", user |-> u, message |-> m,
                 model |-> em, raised |-> o.raised, result |-> o.result,
                 reply |-> o.reply, end_time |-> o.end_time, api |-> o.api,
                 calls |-> o.calls]
    /\ UNCHANGED <<otherVars, now, redis, expireAt, lastOk, lastPush, pipeVars>>

InitTool ==
    /\ now = 0
    /\ \/ /\ redis = [k \in Keys |-> <<>>]
          /\ expireAt = [k \in Keys |-> NoTTL]
          /\ ltm = <<>>
       \/ /\ redis = EarlierRedis.redis
          /\ expireAt = EarlierRedis.expireAt
          /\ ltm = EarlierLtm
    /\ lastOk = [k \in Keys |-> Never]
    /\ lastPush = [k \in Keys |-> Never]
    /\ op = NoTool
    /\ InitIdle

NextTool == DeviceAlarms \/ Tick

SpecTool == InitTool /\ [][NextTool]_vars

-----------------------------------------------------------------------------
(* SpecSessions: requests served at the same time, Redis command by command *)

\* request_body.user_id and request_body.session_id are any strings
SessionPairs ==
    {[user_id |-> "u1", session_id |-> "s1"],
     [user_id |-> "u2", session_id |-> "s1"],
     [user_id |-> "u1", session_id |-> "s1:session:s1"],
     [user_id |-> "u1:session:s1", session_id |-> "s1"]}

SessionKeys == {Key(q.user_id, q.session_id) : q \in SessionPairs}

Reqs == 1..MaxRequests

\* request_body.message of a request and the response it is answered with
MessageOf(r) == "m" \o ToString(r)
ResponseOf(r) == "a" \o ToString(r)

Idle ==
    [pc |-> "idle", user_id |-> "", session_id |-> "", key |-> "",
     seen |-> <<>>, raised |-> "none"]

KeyOf(r) == flight[r].key

\* the handler builds its provider for one of the pairs: self.key.
\* Requests are numbered in the order they come in.
ArriveAmong(r, pairs) ==
    /\ flight[r].pc = "idle"
    /\ \A x \in Reqs : x < r => flight[x].pc # "idle"
    /\ \E q \in pairs :
          flight' = [flight EXCEPT ![r] =
                        [Idle EXCEPT !.pc = "push_user",
                                     !.user_id = q.user_id,
                                     !.session_id = q.session_id,
                                     !.key = Key(q.user_id, q.session_id)]]
    /\ UNCHANGED <<ingestVars, writes, now, redis, expireAt, stmVars, pipeVars>>

\* self.redis.rpush(self.key, json.dumps(item)), or RedisError
PushStep(r, at, role, content, next) ==
    /\ flight[r].pc = at
    /\ Len(redis[KeyOf(r)]) <= MaxLog
    /\ \E fault \in {"none", "rpush"} :
          IF fault = "rpush"
          THEN /\ flight' = [flight EXCEPT ![r].pc = "failed",
                                           ![r].raised = "ConnectionError"]
               /\ UNCHANGED redis
          ELSE /\ redis' = RPush(redis, KeyOf(r),
                                 JsonDumps([role |-> role, content |-> content,
                                            timestamp |-> now]))
               /\ flight' = [flight EXCEPT ![r].pc = next]
    /\ UNCHANGED <<ingestVars, writes, now, expireAt, stmVars, pipeVars>>

\* self.redis.expire(self.key, self.ttl), or RedisError
ExpireStep(r, at, next) ==
    /\ flight[r].pc = at
    /\ \E fault \in {"none", "expire"} :
          IF fault = "expire"
          THEN /\ flight' = [flight EXCEPT ![r].pc = "failed",
                                           ![r].raised = "ConnectionError"]
               /\ UNCHANGED expireAt
          ELSE /\ expireAt' = Expire(redis, expireAt, now, KeyOf(r),
                                     ttl_seconds)
               /\ flight' = [flight EXCEPT ![r].pc = next]
    /\ UNCHANGED <<ingestVars, writes, now, redis, stmVars, pipeVars>>

Arrive(r) == ArriveAmong(r, SessionPairs)

PushUser(r) ==
    PushStep(r, "push_user", "user", MessageOf(r), "expire_user")

ExpireUser(r) == ExpireStep(r, "expire_user", "read")

\* get_messages of an agent that runs between the two writes; seen keeps
\* the contents of the entries it returns
ReadLog(r) ==
    /\ flight[r].pc = "read"
    /\ \E fault \in {"none", "lrange"} :
          LET o == STM_get_messages(redis, KeyOf(r), MaxWindow, fault)
          IN  flight' = [flight EXCEPT
                            ![r].pc = IF o.raised = "none"
                                      THEN "push_assistant" ELSE "failed",
                            ![r].seen = [i \in DOMAIN o.result |->
                                            o.result[i].content],
                            ![r].raised = o.raised]
    /\ UNCHANGED <<ingestVars, writes, now, redis, expireAt, stmVars, pipeVars>>

PushAssistant(r) ==
    PushStep(r, "push_assistant", "assistant", ResponseOf(r),
             "expire_assistant")

ExpireAssistant(r) == ExpireStep(r, "expire_assistant", "done")

\* time passes for everyone; Redis drops the keys whose TTL has elapsed
Elapse ==
    /\ now + TickStep <= MaxTime
    /\ now' = now + TickStep
    /\ redis' = Purge(redis, expireAt, now')
    /\ expireAt' = PurgeTTL(expireAt, now')
    /\ UNCHANGED <<otherVars, stmVars, pipeVars>>

InitSessions ==
    /\ now = 0
    /\ redis = [k \in SessionKeys |-> <<>>]
    /\ expireAt = [k \in SessionKeys |-> NoTTL]
    /\ InitHistory
    /\ ltm = <<>>
    /\ pc = "idle"
    /\ req = NoRequest
    /\ loc = NoLocals
    /\ out = NoReply
    /\ pre = [redis |-> redis, expireAt |-> expireAt, ltm |-> ltm]
    /\ trace = <<>>
    /\ calls = <<>>
    /\ branches = <<>>
    /\ knowledge = KnowledgeCorpus
    /\ ingest = NoIngest
    /\ flight = [r \in Reqs |-> Idle]
    /\ writes = <<>>

NextSessions ==
    \/ \E r \in Reqs : Arrive(r)
    \/ \E r \in Reqs : PushUser(r)
    \/ \E r \in Reqs : ExpireUser(r)
    \/ \E r \in Reqs : ReadLog(r)
    \/ \E r \in Reqs : PushAssistant(r)
    \/ \E r \in Reqs : ExpireAssistant(r)
    \/ Elapse

SpecSessions == InitSessions /\ [][NextSessions]_vars

\* SpecOneSession: the same, with every request in one session
SharedLogPairs == {[user_id |-> "u1", session_id |-> "s1"]}

ArriveShared(r) == ArriveAmong(r, SharedLogPairs)

NextOneSession ==
    \/ \E r \in Reqs : ArriveShared(r)
    \/ \E r \in Reqs : PushUser(r)
    \/ \E r \in Reqs : ExpireUser(r)
    \/ \E r \in Reqs : ReadLog(r)
    \/ \E r \in Reqs : PushAssistant(r)
    \/ \E r \in Reqs : ExpireAssistant(r)
    \/ Elapse

SpecOneSession == InitSessions /\ [][NextOneSession]_vars

-----------------------------------------------------------------------------
(* SpecAgent: one run of one agent over the stores of a session *)

NoRun ==
    [kind |-> "none", agent |-> CHOOSE a \in Agents : ~a.enabled,
     user |-> "", size |-> 0, message |-> "", model |-> "",
     faults |-> NoFaults, raised |-> "none", result |-> NoResult,
     calls |-> <<>>, reads |-> 0, messages |-> <<>>, log |-> <<>>,
     rows |-> <<>>]

AgentRun ==
    /\ op.kind = "none"
    /\ \E a \in Agents, u \in Users, k \in 0..MaxWindow, m \in UserMsgs,
          em \in EmbeddingModels, f \in RunFaults :
       \E o \in Agent_run(a, redis[Key(u, "s1")], ltm, u, k, m, AnswerReplies,
                          em, f) :
          op' = [NoRun EXCEPT
                    !.kind = "run", !.agent = a, !.user = u, !.size = k,
                    !.message = m, !.model = em, !.faults = f,
                    !.raised = o.raised, !.result = o.result,
                    !.calls = o.calls, !.reads = o.reads,
                    !.messages = o.messages, !.log = redis[Key(u, "s1")],
                    !.rows = ltm]
    /\ UNCHANGED <<otherVars, now, redis, expireAt, lastOk, lastPush, pipeVars>>

InitAgent ==
    /\ now = 0
    /\ \/ /\ redis = [k \in Keys |-> <<>>]
          /\ expireAt = [k \in Keys |-> NoTTL]
          /\ ltm = <<>>
       \/ /\ redis = EarlierRedis.redis
          /\ expireAt = EarlierRedis.expireAt
          /\ ltm = EarlierLtm
    /\ lastOk = [k \in Keys |-> Never]
    /\ lastPush = [k \in Keys |-> Never]
    /\ op = NoRun
    /\ InitIdle

NextAgent == AgentRun \/ Tick

SpecAgent == InitAgent /\ [][NextAgent]_vars

-----------------------------------------------------------------------------
(* Claims about the pipeline, under Spec *)

Denied == loc.guardrail_reply = "DENIED"
Allowed == loc.guardrail_reply \notin {"", "DENIED"}
Ended == pc \in {"done", "denied", "failed"}

\* the usage of every provider call made for the request, summed
Billed == SumUsage([i \in DOMAIN calls |-> calls[i].usage])

Ran(stage) == \E i \in DOMAIN trace : trace[i] = stage

\* C1: a request whose guardrail agent answered "DENIED" leaves the ephemeral
\* logs (entries and TTL) and the semantic store as they were when it came
\* in; the only change the stores can show is the expiry of a log whose TTL
\* ran out meanwhile.
C1_DeniedLeavesStores ==
    Denied => /\ redis = Purge(pre.redis, pre.expireAt, now)
              /\ expireAt = PurgeTTL(pre.expireAt, now)
              /\ ltm = pre.ltm

\* a denied request of a session whose log and semantic rows exist, with time
\* passed since they were written
C1_Witness ==
    /\ Denied /\ pc = "denied"
    /\ now > 0
    /\ redis[SessionKey] # <<>>
    /\ expireAt[SessionKey] # NoTTL
    /\ ltm # <<>>

\* C2: a request whose guardrail agent answered "DENIED" ends right after the
\* guardrail stage: it returns the fixed denial message, the four usage
\* fields are those of the guardrail's own call, and no other stage and no
\* branch is run.
C2_DeniedShortCircuit ==
    Denied => /\ pc = "denied"
              /\ out.status = 200
              /\ out.body.response = INPUT_GUARDRAIL_DENIED_RESPONSE
              /\ Len(calls) <= 1
              /\ UsageOf(out.body) = Billed
              /\ trace = <<"guardrail">>
              /\ branches = <<>>

\* a denial decided by a model call that cost something
C2_Witness ==
    /\ Denied /\ pc = "denied"
    /\ Len(calls) = 1 /\ calls[1].call = "model"
    /\ out.body.cost_usd > 0

\* the seven records of an answered request
SevenRecords ==
    << loc.input_guardrail_result,
       loc.add_user_long_term_memory_result,
       loc.rewriter_result,
       loc.embedding_result,
       loc.intent_classifier_agent_result,
       loc.intent_classifier_result,
       embed_query(loc.intent_classifier_result.response, req.model) >>

\* C3: the usage returned by an allowed request that completes is, field by
\* field, the sum over seven records: guardrail, semantic write of the user
\* turn, rewriter, knowledge search, intent classifier, the branch's result
\* and the embedding of the assistant turn's semantic write.
C3_TotalOfSeven ==
    pc = "done" => UsageOf(out.body) = SumUsage(SevenRecords)

\* a completed request in which each of the seven records spent something
C3_Witness ==
    /\ pc = "done"
    /\ \A i \in 1..7 : SevenRecords[i].tokens_total > 0
    /\ \A i \in 1..7 : SevenRecords[i].cost_usd > 0

\* an agent's prompt assembly asked the semantic store for recall
Recalled == \E i \in DOMAIN calls : calls[i].call = "recall_embedding"

\* C4: every model call and every embedding call made while serving a
\* request is in the total the response carries, once; in particular a
\* request for which a recall embedding was made ends with a response whose
\* total includes it.
C4_TotalComplete ==
    (Ended /\ Recalled) =>
        /\ out.status = 200
        /\ UsageOf(out.body) = Billed

\* C4, for the requests that answered with a total
C4_AnsweredComplete ==
    (Ended /\ out.status = 200) => UsageOf(out.body) = Billed

\* the stages of an allowed request, in the order claimed
ClaimedOrder ==
    << "guardrail", "stm_user", "ltm_user", "rewrite", "retrieve", "classify",
       "dispatch", "stm_assistant", "ltm_assistant", "total_cost" >>

\* the order the handler has them in
CodeOrder ==
    << "guardrail", "stm_user", "ltm_user", "rewrite", "retrieve", "classify",
       "dispatch", "stm_assistant", "total_cost", "ltm_assistant" >>

\* C5: an allowed request that completes has run guardrail, the two writes
\* of the user turn, rewrite, retrieval, classification, dispatch, the two
\* writes of the assistant turn and then the total, each once, in this order.
C5_StageOrder ==
    pc = "done" => trace = ClaimedOrder

\* C5, with the total taken between the two writes of the assistant turn
C5_CodeStageOrder ==
    pc = "done" => trace = CodeOrder

\* C6: an allowed request whose classification stage returned runs exactly
\* one branch, the one its intent tag selects.
C6_OneBranch ==
    (Allowed /\ Ran("dispatch")) =>
        /\ Len(branches) = 1
        /\ HasIntent(loc.intent_classifier_agent_result.response)
        /\ branches[1].name =
              BranchFor(IntentOf(loc.intent_classifier_agent_result.response))

\* C6, for the classifier replies that carry an intent
C6_OneBranchOfMapping ==
    (Allowed /\ Ran("dispatch")
        /\ HasIntent(loc.intent_classifier_agent_result.response)) =>
        /\ Len(branches) = 1
        /\ branches[1].name =
              BranchFor(IntentOf(loc.intent_classifier_agent_result.response))

\* C7: whatever branch runs is given the rewritten query; the user_manual
\* flow is also given the contents of the retrieved chunks, best first, and
\* the other two are given no context.
C7_ContextOnlyToUserManual ==
    \A i \in DOMAIN branches :
        /\ branches[i].message = loc.rewriter_result.response
        /\ IF branches[i].name = "user_manual"
           THEN /\ branches[i].has_context
                /\ branches[i].context =
                      [j \in DOMAIN loc.similar_docs |->
                          loc.similar_docs[j].content]
                /\ \A j, k \in DOMAIN loc.similar_docs :
                      j < k => loc.similar_docs[j].score
                                  >= loc.similar_docs[k].score
           ELSE /\ ~branches[i].has_context
                /\ branches[i].context = <<>>

\* the user_manual flow invoked with several retrieved chunks
C7_Witness ==
    /\ branches # <<>>
    /\ branches[1].name = "user_manual"
    /\ Len(branches[1].context) >= 2
    /\ branches[1].context[1] # branches[1].context[2]

\* the exceptions the stages of the handler can end in
Failures ==
    {"ValueError", "ConnectionError", "ProviderError", "StoreUnavailable",
     "ModelCallError", "TypeError", "HTTP500"}

\* C20: whichever stage fails and whatever the exception, the caller gets
\* the one fixed answer: status 500, no body, the generic text, nothing of
\* the exception.
C20_GenericFailure ==
    /\ pc = "failed" =>
          /\ loc.error \in Failures
          /\ out = [status |-> 500, body |-> NoResult,
                    detail |-> GENERIC_FAILURE]
    /\ loc.error # "none" => pc = "failed"

\* a request that failed in its last stage, on the database
C20_Witness ==
    /\ pc = "failed"
    /\ loc.error = "StoreUnavailable"
    /\ Ran("ltm_assistant")

\* the two rows a completed request appended
UserRow == ltm[Len(ltm) - 1]
AssistantRow == ltm[Len(ltm)]

\* C13, the user turn: its row carries the embedding usage of indexing the
\* message and nothing else.
C13_UserTurnUsage ==
    pc = "done" =>
        /\ UserRow.role = "user"
        /\ UserRow.usage_info = embed_query(req.message, req.model)

\* C13: once an allowed request has completed, the row of the user turn
\* carries the embedding usage of indexing the message, and the row of the
\* assistant turn carries the branch's own usage plus the embedding usage of
\* indexing the reply.
C13_TurnUsage ==
    pc = "done" =>
        /\ UserRow.usage_info = embed_query(req.message, req.model)
        /\ AssistantRow.role = "assistant"
        /\ AssistantRow.usage_info =
              SumUsage(<< loc.intent_classifier_result,
                          embed_query(loc.intent_classifier_result.response,
                                      req.model) >>)

\* C13, as the handler has it: the row of the assistant turn carries the
\* total of the whole request
C13_AssistantRowHoldsTotal ==
    pc = "done" => AssistantRow.usage_info = UsageOf(out.body)

-----------------------------------------------------------------------------
(* Claims about the ephemeral store, under SpecSTM *)

Min(a, b) == IF a < b THEN a ELSE b

\* the last n entries of a sequence, in order
LastEntries(seq, n) == SubSeq(seq, Len(seq) - n + 1, Len(seq))

Returned(kind) == op.kind = kind /\ op.raised = "none"

\* C8: an append whose role is neither user nor assistant raises the
\* validation error, pushes no entry and does not reset the TTL.
C8_InvalidRoleRejected ==
    [][(STMAdd /\ op'.role \notin {"user", "assistant"})
          => /\ op'.raised = "ValueError"
             /\ redis' = redis
             /\ expireAt' = expireAt]_vars

\* an append with role "system" was made on a log that holds an entry and
\* has its TTL running
C8_Witness ==
    /\ op.kind = "add" /\ op.role = "system" /\ op.raised = "ValueError"
    /\ op.log # <<>>
    /\ op.at > 0
    /\ expireAt[STMKey] # NoTTL

WellFormed(list) == \A i \in DOMAIN list : Decodable(list[i])

\* C9: with window K >= 0 and N entries in the unexpired log, a read returns
\* exactly the last min(N, K) entries in append order.
C9_Claim ==
    (Returned("get") /\ WellFormed(op.log)) =>
        op.result = LastEntries(DecodeAll(op.log), Min(Len(op.log), op.size))

\* C9 restricted to K >= 1, which is what lrange(key, -K, -1) delivers
C9_PositiveWindow ==
    (Returned("get") /\ op.size >= 1) =>
        op.result = LastEntries(DecodeAll(op.log), Min(Len(op.log), op.size))

\* C10, first half: a read less than the TTL after the last append that
\* returned finds the log non-empty, however old its first entry is.
C10_WithinTTL ==
    (Returned("get") /\ lastOk[STMKey] # Never
        /\ op.at - lastOk[STMKey] < ttl_seconds) => op.result # <<>>

\* C10, second half: a read made once the TTL has elapsed since the last
\* append that wrote anything returns an empty sequence.
C10_AfterTTL ==
    (Returned("get") /\ lastPush[STMKey] # Never
        /\ op.at - lastPush[STMKey] >= ttl_seconds) => op.result = <<>>

\* C10: expiry is decided by the time of the last append alone.
C10_Claim == C10_WithinTTL /\ C10_AfterTTL

\* the decodable entries among the last k items of a list, in stored order
DecodableOfLast(list, k) ==
    LET last == LastEntries(list, Min(Len(list), k))
    IN  DecodeAll(last)

\* C11: a read is never failed by an item that cannot be decoded: unless
\* Redis itself fails, it returns, and what it returns is the decodable
\* entries among the last K stored items, in stored order.
C11_Claim ==
    op.kind = "get" =>
        /\ op.raised \in {"none", "ConnectionError"}
        /\ op.raised = "none" =>
              op.result = DecodableOfLast(op.log, op.size)

\* C11 for K >= 1, which is what lrange(key, -K, -1) delivers
C11_PositiveWindow ==
    (op.kind = "get" /\ op.size >= 1) =>
        /\ op.raised \in {"none", "ConnectionError"}
        /\ op.raised = "none" =>
              op.result = DecodableOfLast(op.log, op.size)

-----------------------------------------------------------------------------
(* Claims about the semantic store and the searches, under SpecLTM *)

Done(kind) == op.kind = kind /\ op.raised = "none"

\* field by field, a = b + c
IsSum(a, b, c) ==
    /\ a.tokens_prompt = b.tokens_prompt + c.tokens_prompt
    /\ a.tokens_completion = b.tokens_completion + c.tokens_completion
    /\ a.tokens_total = b.tokens_total + c.tokens_total
    /\ a.cost_usd = b.cost_usd + c.cost_usd

\* C12: an append given usage P whose embedding used E persists exactly one
\* new entry, with usage_info = P + E field by field, and returns P + E; the
\* returned cost is then at least the embedding's.
C12_MergeOnWrite ==
    Done("ltm_add") =>
        /\ Len(op.calls) = 1
        /\ Len(ltm) = Len(op.rows) + 1
        /\ SubSeq(ltm, 1, Len(op.rows)) = op.rows
        /\ ltm[Len(ltm)].message = op.given.response
        /\ IsSum(ltm[Len(ltm)].usage_info, op.given, op.calls[1].usage)
        /\ IsSum(op.returned, op.given, op.calls[1].usage)
        /\ op.returned.cost_usd >= op.calls[1].usage.cost_usd

\* an append of a reply that came with a cost of its own, embedded at a price
C12_Witness ==
    /\ Done("ltm_add")
    /\ op.given.cost_usd > 0
    /\ op.calls[1].usage.cost_usd > 0
    /\ op.rows # <<>>

\* the rows a user wrote, whatever the session
RowsOf(rows, user_id) == {i \in DOMAIN rows : rows[i].user_id = user_id}

Ids(results) == {results[i].id : i \in DOMAIN results}

\* C14: a search for user U returns only entries of U, and U's entries of
\* every session are candidates: when U has no more than top_n entries the
\* search returns them all.
C14_UserScoped ==
    Done("ltm_search") =>
        /\ \A i \in DOMAIN op.result :
              /\ op.result[i].user_id = op.user
              /\ op.result[i].id \in RowsOf(op.rows, op.user)
              /\ op.result[i].session_id = op.rows[op.result[i].id].session_id
        /\ Cardinality(RowsOf(op.rows, op.user)) <= op.top_n =>
              Ids(op.result) = RowsOf(op.rows, op.user)

\* a search for u1 that returns entries of two sessions of u1 while the
\* store holds an entry of u2
C14_Witness ==
    /\ Done("ltm_search")
    /\ op.user = "u1"
    /\ \E i, j \in DOMAIN op.result :
          op.result[i].session_id = "s1" /\ op.result[j].session_id = "s2"
    /\ RowsOf(op.rows, "u2") # {}

\* the entries a search may return, each with its score for the query
Eligible ==
    IF op.kind = "ltm_search"
    THEN {[id |-> i,
           score |-> CosineSimilarity(op.rows[i].embedding,
                                      Direction(op.query))] :
            i \in RowsOf(op.rows, op.user)}
    ELSE {[id |-> op.rows[i].id,
           score |-> CosineSimilarity(op.rows[i].embedding,
                                      Direction(op.query))] :
            i \in DOMAIN op.rows}

\* C15: a search with top_n = k over m eligible entries returns min(k, m)
\* of them, each once and with its own score, best first, and no entry left
\* out scores strictly higher than a returned one.
C15_TopNOrdered ==
    (Done("ltm_search") \/ Done("knowledge_search")) =>
        /\ Len(op.result) = Min(op.top_n, Cardinality(Eligible))
        /\ Cardinality(Ids(op.result)) = Len(op.result)
        /\ \A i \in DOMAIN op.result :
              [id |-> op.result[i].id, score |-> op.result[i].score]
                  \in Eligible
        /\ \A i, j \in DOMAIN op.result :
              i < j => op.result[i].score >= op.result[j].score
        /\ \A e \in Eligible : \A i \in DOMAIN op.result :
              e.id \notin Ids(op.result) => e.score <= op.result[i].score

\* a search that had to leave an entry out and returned entries of
\* different scores
C15_Witness ==
    /\ Done("ltm_search")
    /\ Len(op.result) = 2
    /\ Cardinality(Eligible) = 3
    /\ op.result[1].score > op.result[2].score

\* C16: with an embedding model the price table lacks, an append, a search
\* and a knowledge search that meet no fault of the provider or the
\* database complete, and the embedding they make costs 0 whatever its
\* token count.
C16_UnknownModelCostsNothing ==
    (op.kind # "none" /\ req.model \notin PricedModels) =>
        /\ op.fault = "none" => op.raised = "none"
        /\ \A i \in DOMAIN op.calls : op.calls[i].usage.cost_usd = 0
        /\ op.raised = "none" =>
              /\ op.kind = "ltm_add" =>
                    op.returned.cost_usd = op.given.cost_usd
              /\ op.kind # "ltm_add" => op.cost.cost_usd = 0

\* an append made with a model the table lacks, whose embedding used tokens
C16_Witness ==
    /\ Done("ltm_add")
    /\ req.model \notin PricedModels
    /\ op.calls[1].usage.tokens_total > 0

\* the price table as the specification has it, in hundredths of a USD per
\* million tokens
PerMillionTokens ==
    [m \in PricedModels |->
        CASE m = "text-embedding-3-small" -> 2
          [] m = "text-embedding-3-large" -> 13
          [] m = "text-embedding-ada-002" -> 10]

\* T / 1,000,000 * price per million tokens, in 1e-14 USD
PerMillionCost(model, total_tokens) ==
    total_tokens * PerMillionTokens[model] * 1000000

\* C17: with a model of the price table, an embedding of T tokens costs
\* T / 1,000,000 times the model's price per million tokens.
C17_PerMillionPrice ==
    (op.kind # "none" /\ req.model \in PricedModels) =>
        \A i \in DOMAIN op.calls :
            op.calls[i].usage.cost_usd =
                PerMillionCost(req.model, op.calls[i].usage.tokens_total)

\* C17, at the rate the code charges: the table's entry, a price per token,
\* divided by 1,000,000 once more
C17_PerTokenPriceDivided ==
    (op.kind # "none" /\ req.model \in PricedModels) =>
        \A i \in DOMAIN op.calls :
            op.calls[i].usage.cost_usd * 1000000 =
                PerMillionCost(req.model, op.calls[i].usage.tokens_total)

-----------------------------------------------------------------------------
(* Claims about Agent.run, under SpecAgent *)

\* C18: the run of a disabled agent returns the message as the response
\* with the four usage fields at zero; it calls no model, reads no
\* ephemeral log and makes no recall embedding.
C18_DisabledEcho ==
    (op.kind = "run" /\ ~op.agent.enabled) =>
        /\ op.raised = "none"
        /\ op.result.response = op.message
        /\ UsageOf(op.result) = ZeroUsage
        /\ op.calls = <<>>
        /\ op.reads = 0
        /\ op.messages = <<>>

\* a disabled agent that has history switched on, both providers and a
\* session with entries, run while Redis and the database are failing
C18_Witness ==
    /\ op.kind = "run" /\ ~op.agent.enabled
    /\ op.agent.use_memory_history
    /\ op.agent.short_term /\ op.agent.long_term
    /\ op.log # <<>> /\ op.rows # <<>>
    /\ op.faults.stm = "lrange" /\ op.faults.model = "invoke"

\* the names of the sections of the system message, in order
SectionNames(message) ==
    [i \in DOMAIN message.content |-> message.content[i].name]

\* whether a section has something to show
HasHistory ==
    /\ op.agent.use_memory_history /\ op.agent.short_term
    /\ DecodableOfLast(op.log, IF op.size = 0 THEN Len(op.log) ELSE op.size)
          # <<>>

HasRecall == op.agent.use_memory_history /\ op.agent.long_term

HasContext ==
    op.agent.use_context /\ op.agent.context_text \notin {"", " "}

\* base instructions, ephemeral history, semantic recall, static context,
\* each present only when it has something to show
ExpectedSections ==
    <<"system_prompt">>
    \o (IF HasHistory THEN <<"short_term_memory">> ELSE <<>>)
    \o (IF HasRecall THEN <<"long_term_memory">> ELSE <<>>)
    \o (IF HasContext THEN <<"context">> ELSE <<>>)

PromptInOrder ==
    /\ Len(op.messages) = 2
    /\ op.messages[1].type = "system"
    /\ SectionNames(op.messages[1]) = ExpectedSections
    /\ op.messages[2].type = "human"
    /\ op.messages[2].content = <<Section("user_input", op.message)>>

\* C19: an enabled agent whose stores answer assembles one system message
\* with the sections base instructions, ephemeral history, semantic recall,
\* static context in this order, the disabled or empty ones left out, and
\* then the user input as a message of its own.
C19_PromptOrder ==
    (op.kind = "run" /\ op.agent.enabled
        /\ op.faults.stm = "none" /\ op.faults.ltm = "none") =>
        PromptInOrder

\* C19, for the agents that ask for no semantic recall
C19_PromptOrderWithoutRecall ==
    (op.kind = "run" /\ op.agent.enabled /\ ~HasRecall
        /\ op.faults.stm = "none" /\ op.faults.ltm = "none") =>
        PromptInOrder

-----------------------------------------------------------------------------
(* Claims about the usage merge, under SpecMerge *)

Merged == op.kind = "merge"

\* the token counts of a usage record
Tokens(u) == <<u.tokens_prompt, u.tokens_completion, u.tokens_total>>

\* C21: the usage merge is commutative and associative with the all-zero
\* record as identity: the merge of a list of records is the same in any
\* order and any grouping of the records, and merging a record with zero
\* returns it unchanged.
C21_MergeAlgebra ==
    Merged =>
        /\ op.reordered = op.merged
        /\ op.grouped = op.merged
        /\ \A i \in DOMAIN op.dicts : op.with_zero[i] = op.dicts[i]

\* What the merge does keep: the token counts are the same in any order and
\* grouping, zero is an identity, and two records merge to the same record
\* in either order.
C21_TokensAndPairs ==
    Merged =>
        /\ Tokens(op.reordered) = Tokens(op.merged)
        /\ Tokens(op.grouped) = Tokens(op.merged)
        /\ \A i \in DOMAIN op.dicts : op.with_zero[i] = op.dicts[i]
        /\ Len(op.dicts) <= 2 => op.reordered = op.merged

\* three costs whose float sum depends on the order they are added in
C21_OrderChangesCost ==
    /\ Merged
    /\ Len(op.dicts) = 3
    /\ op.reordered.cost_usd # op.merged.cost_usd

-----------------------------------------------------------------------------
(* Claims about knowledge ingestion, under SpecIngest *)

\* the rows with a content hash, in a table
RowsWithHash(rows, h) == {i \in DOMAIN rows : rows[i].content_hash = h}

OneRowPerHash(rows) ==
    \A i, j \in DOMAIN rows :
        rows[i].content_hash = rows[j].content_hash => i = j

\* C22: ingestion is idempotent on chunk text: after any sequence of runs
\* the corpus holds at most one row per content hash, and for text whose
\* hash is already stored a run inserts no row and makes no embedding call.
C22_IngestIdempotent ==
    /\ OneRowPerHash(knowledge)
    /\ OneRowPerHash(ingest.rows)
    /\ \A i \in DOMAIN ingest.steps :
           ingest.steps[i].stored =>
               /\ ingest.steps[i].embedded = 0
               /\ ingest.steps[i].inserted = 0

\* a run has gone over text an earlier run stored and over new text, and is
\* committed
C22_Witness ==
    /\ ingest.pc = "idle"
    /\ ingest.raised = "none"
    /\ knowledge # ingest.before
    /\ \E i \in DOMAIN ingest.steps :
           /\ ingest.steps[i].stored
           /\ is_content_processed(ingest.before,
                                   ingest.steps[i].content_hash)
    /\ \E i \in DOMAIN ingest.steps : ingest.steps[i].inserted = 1

-----------------------------------------------------------------------------
(* Claims about the device-alarms flow, under SpecTool *)

\* the agent answered with a mapping and the alarms API did not fail
AlarmsAsked == op.kind = "device_alarms" /\ IsAlarmQuery(op.reply)

\* C23: when the extracted cutoff date is empty the flow completes using
\* today's date as the cutoff, and when the extracted device name is empty
\* the flow returns the guidance message asking for the device name.
C23_UnspecifiedFields ==
    AlarmsAsked /\ op.api # "failed" =>
        /\ EndTime(op.reply) = "" =>
               op.raised = "none" /\ op.end_time = Today
        /\ DeviceName(op.reply) = "" =>
               op.raised = "none" /\ op.result.response = DEVICE_NAME_GUIDANCE

\* What the flow does: with a cutoff date in the reply it is sent as it is
\* and an empty device name is answered with the guidance message; with no
\* cutoff date the flow ends in HTTP 500 before the API is asked.
C23_DatedRequests ==
    AlarmsAsked /\ op.api # "failed" =>
        IF EndTime(op.reply) = ""
        THEN op.raised = "HTTP500" /\ op.api = "none"
        ELSE /\ op.raised = "none"
             /\ op.end_time = EndTime(op.reply)
             /\ DeviceName(op.reply) = "" =>
                    op.result.response = DEVICE_NAME_GUIDANCE

\* the agent found a device name and no cutoff date
C23_NoCutoff ==
    /\ AlarmsAsked
    /\ EndTime(op.reply) = ""
    /\ DeviceName(op.reply) # ""

-----------------------------------------------------------------------------
(* Claims about requests served at the same time, under SpecSessions *)

Arrived(r) == flight[r].pc # "idle"

SamePair(r1, r2) ==
    /\ flight[r1].user_id = flight[r2].user_id
    /\ flight[r1].session_id = flight[r2].session_id

\* what the requests of the session of r write
WrittenBySession(r) ==
    {MessageOf(x) : x \in {y \in Reqs : Arrived(y) /\ SamePair(y, r)}} \cup
    {ResponseOf(x) : x \in {y \in Reqs : Arrived(y) /\ SamePair(y, r)}}

\* C24: requests of different (user_id, session_id) pairs never read or
\* write the same ephemeral log: distinct pairs map to distinct store keys,
\* and the log of a session holds only entries appended by requests of that
\* session.
C24_SessionsIsolated ==
    \A r1, r2 \in Reqs :
        Arrived(r1) /\ Arrived(r2) /\ ~SamePair(r1, r2) =>
            /\ KeyOf(r1) # KeyOf(r2)
            /\ \A i \in DOMAIN redis[KeyOf(r1)] :
                   redis[KeyOf(r1)][i].content \in WrittenBySession(r1)
            /\ \A i \in DOMAIN flight[r1].seen :
                   flight[r1].seen[i] \in WrittenBySession(r1)

\* ids that hold no ":session:"
PlainPair(r) == flight[r].user_id \in Users /\ flight[r].session_id \in Sessions

\* The same, for requests whose ids are plain.
C24_PlainSessionsIsolated ==
    \A r1, r2 \in Reqs :
        /\ Arrived(r1) /\ Arrived(r2) /\ ~SamePair(r1, r2)
        /\ PlainPair(r1) /\ PlainPair(r2)
        => /\ KeyOf(r1) # KeyOf(r2)
           /\ \A i \in DOMAIN redis[KeyOf(r1)] :
                  redis[KeyOf(r1)][i].content \in WrittenBySession(r1)
           /\ \A i \in DOMAIN flight[r1].seen :
                  flight[r1].seen[i] \in WrittenBySession(r1)

\* no request stands between the push and the TTL reset of an append to k
NoAppendUnderWay(k) ==
    \A r \in Reqs :
        flight[r].pc \in {"expire_user", "expire_assistant"} => KeyOf(r) # k

\* C25: after any ephemeral append returns or raises, a non-empty session
\* log has its TTL armed: no message is left stored without the TTL having
\* been reset.
C25_TTLArmed ==
    \A k \in SessionKeys :
        NoAppendUnderWay(k) /\ redis[k] # <<>> => expireAt[k] # NoTTL

\* The same, as long as no append has raised.
C25_TTLArmedWhenNoneRaised ==
    (\A r \in Reqs : flight[r].raised = "none") =>
        \A k \in SessionKeys :
            NoAppendUnderWay(k) /\ redis[k] # <<>> => expireAt[k] # NoTTL

IsPrefix(a, b) == Len(a) <= Len(b) /\ SubSeq(b, 1, Len(a)) = a

\* where an entry with a content stands in a list (0: nowhere)
IndexOf(list, content) ==
    IF \E i \in DOMAIN list : list[i].content = content
    THEN CHOOSE i \in DOMAIN list : list[i].content = content
    ELSE 0

UserBeforeAssistant ==
    \A r \in Reqs :
        Arrived(r) =>
            LET log == redis[KeyOf(r)]
                u == IndexOf(log, MessageOf(r))
                a == IndexOf(log, ResponseOf(r))
            IN  u # 0 /\ a # 0 => u < a

\* C30: under any interleaving of requests, a log is only ever extended at
\* its tail (the log before a step is a prefix of the log after it, until
\* it expires), and the user entry of a request precedes the assistant
\* entry of the same request.
C30_AppendOnly ==
    [][/\ \A k \in SessionKeys :
             \/ IsPrefix(redis[k], redis'[k])
             \/ /\ redis'[k] = <<>>
                /\ expireAt[k] # NoTTL
                /\ expireAt[k] <= now'
       /\ UserBeforeAssistant']_vars

\* of two requests of one session one has been answered, and the log holds
\* the user entry of the other between its two entries
C30_Witness ==
    \E r1, r2 \in Reqs :
        /\ r1 # r2
        /\ SamePair(r1, r2)
        /\ flight[r1].pc = "done"
        /\ Len(redis[KeyOf(r1)]) = 3
        /\ IndexOf(redis[KeyOf(r1)], MessageOf(r2))
              < IndexOf(redis[KeyOf(r1)], ResponseOf(r1))

-----------------------------------------------------------------------------
(* Claims about what a request writes, under Spec *)

WritesTo(tier) == SelectSeq(writes, LAMBDA w : w.tier = tier)

\* the two turns of the request: the raw input, then the returned response
TwoTurns(tier) ==
    <<Written(tier, "user", req.message),
      Written(tier, "assistant", out.body.response)>>

\* C26: every allowed request that completes appends exactly two entries
\* to the ephemeral log (role user with the raw input, then role assistant
\* with the returned response) and exactly two entries to semantic memory
\* (the same two turns), whatever branch ran; the branch flows write to
\* neither memory.
C26_TwoTurnsPerTier ==
    /\ pc = "done" =>
           /\ WritesTo("stm") = TwoTurns("stm")
           /\ WritesTo("ltm") = TwoTurns("ltm")
           /\ ltm = pre.ltm \o [i \in 1..2 |->
                        [ltm[Len(pre.ltm) + i] EXCEPT
                            !.role = TwoTurns("ltm")[i].role,
                            !.message = TwoTurns("ltm")[i].content]]
    /\ pc \in {"dispatch", "stm_assistant"} =>
           Len(writes) = 2 /\ ltm = pre.ltm \o Added(pre.ltm, ltm)

\* a request answered by a tool flow, in a session that had entries
C26_Witness ==
    /\ pc = "done"
    /\ loc.agent_name = "user_manual"
    /\ pre.ltm # <<>>
    /\ Len(writes) = 4

\* C27: at every point of a request, also when it fails, the number of
\* entries it has written to ephemeral memory minus the number it has
\* written to semantic memory is 0 or 1: each turn goes to ephemeral memory
\* first, and nothing written is undone.
C27_EphemeralFirst ==
    /\ Len(WritesTo("stm")) - Len(WritesTo("ltm")) \in {0, 1}
    /\ \A i \in DOMAIN writes :
           writes[i].tier = "ltm" =>
               i > 1 /\ writes[i - 1] = [writes[i] EXCEPT !.tier = "stm"]
    /\ Len(ltm) = Len(pre.ltm) + Len(WritesTo("ltm"))

\* a request that failed between the ephemeral and the semantic write of
\* the assistant turn
C27_Witness ==
    /\ pc = "failed"
    /\ Len(WritesTo("stm")) = 2
    /\ Len(WritesTo("ltm")) = 1
    /\ Ran("ltm_assistant")

-----------------------------------------------------------------------------
(* Claims about the kill-switch of the guardrail, under Spec *)

\* the guardrail agent ran with "enabled": false in its configuration
GuardrailOff == loc.guardrail_reply # "" /\ ~loc.guardrail_enabled

\* C28: when the guardrail agent is disabled no input is denied: for every
\* user message the pipeline goes past the guardrail stage to record the
\* user turn.
C28_KillSwitchAllowsAll ==
    GuardrailOff => pc # "denied" /\ (pc = "stm_user" \/ Ran("stm_user"))

\* The same, for every message but the text "DENIED".
C28_KillSwitchAllowsOthers ==
    GuardrailOff /\ req.message # "DENIED" =>
        pc # "denied" /\ (pc = "stm_user" \/ Ran("stm_user"))

\* the message "DENIED" sent while the guardrail is disabled
C28_DeniedText ==
    GuardrailOff /\ req.message = "DENIED"

-----------------------------------------------------------------------------
(* Claims about semantic recall in the prompt, under SpecAgent *)

\* a run of an enabled agent that asks for semantic recall, the stores
\* answering
RecallRun ==
    /\ op.kind = "run" /\ op.agent.enabled /\ HasRecall
    /\ op.faults.stm = "none" /\ op.faults.ltm = "none"

\* the lines of the recall section for the entries of a search result
RecallLines(found) ==
    [i \in DOMAIN found |->
        [speaker |-> IF found[i].role = "user" THEN "Usuário"
                     ELSE "Assistente",
         content |-> found[i].message]]

\* the recall sections of the system message of the run
RecallSections ==
    SelectSeq(op.messages[1].content,
              LAMBDA sec : sec.name = "long_term_memory")

\* C29: for an enabled agent with memory history enabled and a semantic
\* memory provider attached, run completes prompt assembly and the recall
\* section lists exactly the entries returned by the semantic search for
\* the current input (top 3), one line per entry in result order with its
\* role and message; when the search returns no entries the section is
\* omitted.
C29_RecallSection ==
    RecallRun =>
        /\ op.raised \in {"none", "ModelCallError"}
        /\ Len(op.messages) = 2
        /\ \E o \in LTM_get_messages(op.rows, op.user, op.message, RecallTopN,
                                      op.model, "none") :
              IF o.messages = <<>> THEN RecallSections = <<>>
              ELSE RecallSections =
                     <<Section("long_term_memory", RecallLines(o.messages))>>

\* What the run does: the search is made and paid for, then the formatting
\* of its result raises TypeError, with entries found or with none, and no
\* prompt is assembled and no model is called.
C29_RecallRaises ==
    RecallRun =>
        /\ op.raised = "TypeError"
        /\ op.messages = <<>>
        /\ Len(op.calls) = 1 /\ op.calls[1].call = "recall_embedding"

\* a run whose search finds entries of the user, and one that finds none
C29_EntriesFound ==
    /\ RecallRun
    /\ \E o \in LTM_get_messages(op.rows, op.user, op.message, RecallTopN,
                                  op.model, "none") : Len(o.messages) >= 2

C29_NothingFound ==
    /\ RecallRun
    /\ \A o \in LTM_get_messages(op.rows, op.user, op.message, RecallTopN,
                                  op.model, "none") : o.messages = <<>>

=============================================================================
